---- MODULE Spec2Model ----
(***************************************************************************)
(* Model of the conan command line layer (conans/client/command.py):      *)
(*   - Command.run, the dispatcher that resolves a command token, calls   *)
(*     the handler and maps every failure to an exit code;                *)
(*   - the argparse actions Extender and OnceArgument, run over the       *)
(*     occurrences of the flags of one parse;                              *)
(*   - the registry Command._commands and the suggestion                  *)
(*     Command._print_similar (difflib.get_close_matches);                 *)
(*   - the handler Command.inspect and its JSON file.                      *)
(* Python values are records [t, i, s, l]: t is the type, and i, s, l     *)
(* hold the integer, string or list payload.  A str whose characters      *)
(* matter (a path) has t = "text" and its characters in l; a set has       *)
(* t = "set" and its elements in e.                                        *)
(***************************************************************************)
EXTENDS Integers, Sequences, FiniteSets, TLC

VARIABLES
    out,          \* messages written to the output sink self._out, in order
    stdout,       \* text written directly to the raw stream sys.stdout
    log,          \* records handed to logger.error (the diagnostic log)
    calls,        \* handler invocations made by run: <<name, args>>
    similar,      \* number of calls of Command._print_similar
    invocations,  \* number of calls of Command.run so far
    last,         \* argument vector, handler behaviour and result of the last run
    parser,       \* the argparse parser under parse: its command name
    actDefault,   \* action.default of every flag of the parser
    parserDefaults, \* destinations present in parser._defaults
    ns,           \* the argparse namespace: destination -> value
    consumed,     \* flag occurrences handled so far: [flag, vals]
    pstatus,      \* "parsing", "done", "error" (parser.error was called)
                  \* or "raised" (another exception left parse_args)
    candidates,   \* the bound methods of the Command object, sorted by name
    registries,   \* the results of the calls of _commands() so far
    word,         \* the command given to the last call of _print_similar
    matches,      \* the matches found by the last call of _print_similar
    files,        \* the files written by save: path -> content
    inspected,    \* arguments and outcome of the last call of Command.inspect
    handled,      \* arguments and outcome of the last call of another handler
    commands,     \* the commands given to conanfile.run, in order
    infos,        \* the lines given to conanfile.output.info, in order
    folders,      \* what exists on disk: meson-private, the cross file; and
                  \* whether conanfile.package_folder is set
    callerOptions, \* the options list object the caller of Meson keeps
    keywords,     \* PkgConfigPkg.keywords: name -> value
    variables,    \* PkgConfigPkg.variables: name -> value
    pkgCalls,     \* the set_keyword and set_variable calls made, in order
    fetched       \* the last PkgConfigPkg call and its result

vars == <<out, stdout, log, calls, similar, invocations, last,
          parser, actDefault, parserDefaults, ns, consumed, pstatus,
          candidates, registries, word, matches, files, inspected,
          handled, commands, infos, folders, callerOptions,
          keywords, variables, pkgCalls, fetched>>

registryVars == <<candidates, registries, word, matches>>
inspectVars == <<files, inspected>>
mesonVars == <<commands, infos, folders, callerOptions>>
pkgVars == <<keywords, variables, pkgCalls, fetched>>
toolVars == <<handled, mesonVars, pkgVars>>

dispatchVars == <<out, stdout, log, calls, similar, invocations, last>>
parseVars == <<parser, actDefault, parserDefaults, ns, consumed, pstatus>>

----------------------------------------------------------------------------
(* Bounds *)

MaxInvocations == 2
MaxOccurrences == 3

----------------------------------------------------------------------------
(* Python values *)

PyNone == [t |-> "None", i |-> 0, s |-> "", l |-> <<>>]
PyInt(n) == [t |-> "int", i |-> n, s |-> "", l |-> <<>>]
PyStr(x) == [t |-> "str", i |-> 0, s |-> x, l |-> <<>>]
PyList(xs) == [t |-> "list", i |-> 0, s |-> "", l |-> xs]
PyText(cs) == [t |-> "text", i |-> 0, s |-> "", l |-> cs]
PySet(xs) == [t |-> "set", i |-> 0, s |-> "", l |-> <<>>, e |-> xs]

\* Python's  v != 0
NotEqualZero(v) == ~(v.t = "int" /\ v.i = 0)

\* Python's  "%d" % v  succeeds only for a number
FormatD_Ok(v) == v.t = "int"

----------------------------------------------------------------------------
(* Exit codes, conans.cli.exit_codes *)

SUCCESS == 0
ERROR_GENERAL == 1
ERROR_INVALID_CONFIGURATION == 6
ERROR_INVALID_SYSTEM_REQUIREMENTS == 7

ExitOutcomeCodes ==
    {SUCCESS, ERROR_GENERAL, ERROR_INVALID_CONFIGURATION,
     ERROR_INVALID_SYSTEM_REQUIREMENTS}

----------------------------------------------------------------------------
(* Exceptions *)

\* The direct base class of every exception class the dispatcher can see.
BaseOf(cls) ==
    CASE cls = "ConanInvalidConfiguration" -> "ConanException"
      [] cls = "ConanInvalidSystemRequirements" -> "ConanException"
      [] cls = "ConanException" -> "Exception"
      [] cls = "IndexError" -> "Exception"
      [] cls = "KeyError" -> "Exception"
      [] cls = "TypeError" -> "Exception"
      [] cls = "RuntimeError" -> "Exception"
      [] cls = "Exception" -> "BaseException"
      [] cls = "KeyboardInterrupt" -> "BaseException"
      [] cls = "SystemExit" -> "BaseException"
      [] OTHER -> "object"

RECURSIVE IsInstance(_, _)
IsInstance(cls, target) ==
    IF cls = target THEN TRUE
    ELSE IF cls = "object" THEN FALSE
    ELSE IsInstance(BaseOf(cls), target)

Exc(cls, code, msg) == [cls |-> cls, code |-> code, msg |-> msg]
NoExc == Exc("none", PyNone, "")

----------------------------------------------------------------------------
(* The registry, Command._commands.  Names and docstrings are sequences of *)
(* characters; a docstring is cut to its first six characters, and a       *)
(* method without a docstring has the empty one.                           *)

DocText == <<"\n", " ", " ", " ", " ", " ">>
DocHidden == <<"H", "I", "D", "D", "E", "N">>

\* inspect.getmembers(self, predicate=inspect.ismethod): the bound methods
\* of Command, sorted by name.
Methods == <<
    [name |-> <<"_", "_", "i", "n", "i", "t", "_", "_">>, doc |-> <<>>],
    [name |-> <<"_", "c", "o", "m", "m", "a", "n", "d", "s">>,
     doc |-> <<" ", "R", "e", "t", "u", "r">>],
    [name |-> <<"_", "p", "r", "i", "n", "t", "_", "s", "i", "m", "i", "l", "a", "r">>,
     doc |-> <<" ", "L", "o", "o", "k", "s">>],
    [name |-> <<"_", "w", "a", "r", "n", "_", "p", "y", "t", "h", "o", "n", "_",
                "v", "e", "r", "s", "i", "o", "n">>, doc |-> <<>>],
    [name |-> <<"b", "u", "i", "l", "d">>, doc |-> DocText],
    [name |-> <<"c", "r", "e", "a", "t", "e">>, doc |-> DocText],
    [name |-> <<"d", "o", "w", "n", "l", "o", "a", "d">>, doc |-> DocText],
    [name |-> <<"e", "d", "i", "t", "a", "b", "l", "e">>, doc |-> DocText],
    [name |-> <<"g", "e", "t">>, doc |-> DocText],
    [name |-> <<"i", "m", "p", "o", "r", "t", "s">>, doc |-> DocText],
    [name |-> <<"i", "n", "s", "p", "e", "c", "t">>, doc |-> DocText],
    [name |-> <<"r", "e", "m", "o", "v", "e">>, doc |-> DocText],
    [name |-> <<"r", "u", "n">>, doc |-> DocHidden],
    [name |-> <<"s", "o", "u", "r", "c", "e">>, doc |-> DocText],
    [name |-> <<"t", "e", "s", "t">>, doc |-> DocText],
    [name |-> <<"u", "p", "l", "o", "a", "d">>, doc |-> DocText] >>

\* str.startswith
StartsWith(chars, prefix) ==
    /\ Len(chars) >= Len(prefix)
    /\ SubSeq(chars, 1, Len(prefix)) = prefix

ExportPkg == <<"e", "x", "p", "o", "r", "t", "_", "p", "k", "g">>
ExportPkgPublic == <<"e", "x", "p", "o", "r", "t", "-", "p", "k", "g">>

\* Variant: no rewrite.
PublicName_Unchanged(method_name) == method_name

\* The public name of a method (the export_pkg rewrite).
PublicName(method_name) ==
    IF method_name = ExportPkg THEN ExportPkgPublic ELSE method_name

\* Variant: the HIDDEN marker is not looked at.
Eligible_HiddenKept(m) ==
    /\ ~StartsWith(m.name, <<"_">>)
    /\ m.doc # <<>>

\* The methods that enter the registry.
Eligible(m) ==
    /\ ~StartsWith(m.name, <<"_">>)
    /\ m.doc # <<>>
    /\ ~StartsWith(m.doc, DocHidden)

\* The registry as the sequence of its entries in insertion order:
\* [name |-> public name, method |-> name of the bound method].
RECURSIVE CommandsFrom(_, _)
CommandsFrom(members, result) ==
    IF members = <<>> THEN result
    ELSE LET m == Head(members)
         IN  CommandsFrom(Tail(members),
                 IF Eligible(m)
                 THEN IF \E k \in 1..Len(result) : result[k].name = PublicName(m.name)
                      THEN [k \in 1..Len(result) |->
                               IF result[k].name = PublicName(m.name)
                               THEN [name |-> result[k].name, method |-> m.name]
                               ELSE result[k]]
                      ELSE Append(result, [name |-> PublicName(m.name), method |-> m.name])
                 ELSE result)

_commands == CommandsFrom(Methods, <<>>)

CommandNames == {_commands[k].name : k \in 1..Len(_commands)}

\* commands[command], for a command in the registry: the bound method
Lookup(command) ==
    _commands[CHOOSE k \in 1..Len(_commands) : _commands[k].name = command].method

----------------------------------------------------------------------------
(* Command.run *)

Msg(level, text, code) == [level |-> level, text |-> text, code |-> code]

\* What one call of run did: how it ended ("returned" with ret, or "raised"
\* with exc leaving run), and what it wrote and called on the way.
Effect(status, ret, exc, o, so, lg) ==
    [status |-> status, ret |-> ret, exc |-> exc, out |-> o, stdout |-> so, log |-> lg]

\* Variant: the interrupt is reported as a failure.
OnKeyboardInterrupt_AsFailure(exc) ==
    Effect("returned", PyInt(ERROR_GENERAL), NoExc, <<>>, <<>>, <<exc.cls>>)

\* except KeyboardInterrupt
OnKeyboardInterrupt(exc) ==
    Effect("returned", PyInt(SUCCESS), NoExc, <<>>, <<>>, <<exc.cls>>)

\* Variant: a nonzero exit request is folded into ERROR_GENERAL.
OnSystemExit_General(exc) ==
    IF NotEqualZero(exc.code)
    THEN IF FormatD_Ok(exc.code)
         THEN Effect("returned", PyInt(ERROR_GENERAL), NoExc,
                     <<Msg("error", "Exiting with code: %d", exc.code.i)>>,
                     <<>>, <<exc.cls>>)
         ELSE Effect("raised", PyNone,
                     Exc("TypeError", PyNone, "%d format: a number is required"),
                     <<>>, <<>>, <<exc.cls>>)
    ELSE Effect("returned", exc.code, NoExc, <<>>, <<>>, <<>>)

\* except SystemExit: "%d" % exc.code raises TypeError inside the handler
\* when the code is not a number, and that exception leaves run.
OnSystemExit(exc) ==
    IF NotEqualZero(exc.code)
    THEN IF FormatD_Ok(exc.code)
         THEN Effect("returned", exc.code, NoExc,
                     <<Msg("error", "Exiting with code: %d", exc.code.i)>>,
                     <<>>, <<exc.cls>>)
         ELSE Effect("raised", PyNone,
                     Exc("TypeError", PyNone, "%d format: a number is required"),
                     <<>>, <<>>, <<exc.cls>>)
    ELSE Effect("returned", exc.code, NoExc, <<>>, <<>>, <<>>)

\* except ConanInvalidConfiguration
OnConanInvalidConfiguration(exc) ==
    Effect("returned", PyInt(ERROR_INVALID_CONFIGURATION), NoExc,
           <<Msg("error", exc.msg, 0)>>, <<>>, <<>>)

\* except ConanInvalidSystemRequirements
OnConanInvalidSystemRequirements(exc) ==
    Effect("returned", PyInt(ERROR_INVALID_SYSTEM_REQUIREMENTS), NoExc,
           <<Msg("error", exc.msg, 0)>>, <<>>, <<>>)

\* Variant: the domain failure sets the code but reports nothing.
OnConanException_Silent(exc) ==
    Effect("returned", PyInt(ERROR_GENERAL), NoExc, <<>>, <<>>, <<>>)

\* except ConanException
OnConanException(exc) ==
    Effect("returned", PyInt(ERROR_GENERAL), NoExc,
           <<Msg("error", exc.msg, 0)>>, <<>>, <<>>)

\* except Exception: print(traceback.format_exc()) writes to sys.stdout
OnException(exc) ==
    Effect("returned", PyInt(ERROR_GENERAL), NoExc,
           <<Msg("error", exc.msg, 0)>>, <<"traceback">>, <<>>)

\* Variant: the general domain clause is placed before the specific ones.
ExceptClauses_GeneralFirst ==
    <<"KeyboardInterrupt", "SystemExit", "ConanException",
      "ConanInvalidConfiguration", "ConanInvalidSystemRequirements", "Exception">>

\* The except clauses of run, in source order.
ExceptClauses ==
    <<"KeyboardInterrupt", "SystemExit", "ConanInvalidConfiguration",
      "ConanInvalidSystemRequirements", "ConanException", "Exception">>

\* The first clause that matches the exception, or "none".
MatchClause(exc) ==
    LET hits == {k \in 1..Len(ExceptClauses) : IsInstance(exc.cls, ExceptClauses[k])}
    IN  IF hits = {} THEN "none"
        ELSE ExceptClauses[CHOOSE k \in hits : \A j \in hits : k <= j]

Handle(exc) ==
    LET clause == MatchClause(exc)
    IN  CASE clause = "KeyboardInterrupt" -> OnKeyboardInterrupt(exc)
          [] clause = "SystemExit" -> OnSystemExit(exc)
          [] clause = "ConanInvalidConfiguration" -> OnConanInvalidConfiguration(exc)
          [] clause = "ConanInvalidSystemRequirements" ->
                 OnConanInvalidSystemRequirements(exc)
          [] clause = "ConanException" -> OnConanException(exc)
          [] clause = "Exception" -> OnException(exc)
          [] OTHER -> Effect("raised", PyNone, exc, <<>>, <<>>, <<>>)

\* Variant: a handler that raises is called a second time.
TryBlock_Retrying(argv, beh) ==
    IF argv = <<>>
    THEN [exc |-> Exc("IndexError", PyNone, "list index out of range"), calls |-> <<>>]
    ELSE IF argv[1] \notin CommandNames
    THEN [exc |-> Exc("KeyError", PyNone, "command"), calls |-> <<>>]
    ELSE LET call == [name |-> Lookup(argv[1]), args |-> Tail(argv)]
         IN  [exc |-> beh,
              calls |-> IF beh = NoExc THEN <<call>> ELSE <<call, call>>]

\* The try block: which exception it ends with (NoExc when the handler
\* returns) and the handler calls it made.  beh is what the handler does.
TryBlock(argv, beh) ==
    IF argv = <<>>
    THEN [exc |-> Exc("IndexError", PyNone, "list index out of range"), calls |-> <<>>]
    ELSE IF argv[1] \notin CommandNames
    THEN [exc |-> Exc("KeyError", PyNone, "command"), calls |-> <<>>]
    ELSE [exc |-> beh, calls |-> <<[name |-> Lookup(argv[1]), args |-> Tail(argv)]>>]

\* run(argv) with a handler that behaves as beh: the effect, the handler
\* calls and the calls of _print_similar.
RunEffect(argv, beh) ==
    LET t == TryBlock(argv, beh)
        e == IF t.exc = NoExc
             THEN Effect("returned", PyInt(SUCCESS), NoExc, <<>>, <<>>, <<>>)
             ELSE Handle(t.exc)
    IN  [argv |-> argv, beh |-> beh, status |-> e.status, ret |-> e.ret,
         exc |-> e.exc, out |-> e.out, stdout |-> e.stdout, log |-> e.log,
         calls |-> t.calls, similar |-> 0]

----------------------------------------------------------------------------
(* Inputs of the dispatcher *)

Build == <<"b", "u", "i", "l", "d">>
Biuld == <<"b", "i", "u", "l", "d">>
Remove == <<"r", "e", "m", "o", "v", "e">>
RunName == <<"r", "u", "n">>
Nonexistent == <<"n", "o", "n", "e", "x", "i", "s", "t", "e", "n", "t", "-",
                 "c", "o", "m", "m", "a", "n", "d">>

Tokens == {Build, Remove, Biuld, RunName, Nonexistent}
HandlerArgs == {<<>>, <<"-r">>, <<"-r", "x">>}

ArgVectors == {<<>>} \cup {<<tok>> \o a : tok \in Tokens, a \in HandlerArgs}

ExitCodes == {PyInt(0), PyInt(1), PyInt(2), PyNone, PyStr("bye")}

HandlerBehaviours ==
    {NoExc, Exc("KeyboardInterrupt", PyNone, "")}
    \cup {Exc("SystemExit", c, "") : c \in ExitCodes}
    \cup {Exc(cls, PyNone, "failed") :
            cls \in {"ConanInvalidConfiguration", "ConanInvalidSystemRequirements",
                     "ConanException", "RuntimeError"}}

----------------------------------------------------------------------------
(* The dispatcher as a state machine: one action per call of run *)

\* Before the first call of run nothing has been returned, written or called.
NoRun ==
    [argv |-> <<>>, beh |-> NoExc, status |-> "idle", ret |-> PyNone,
     exc |-> NoExc, out |-> <<>>, stdout |-> <<>>, log |-> <<>>,
     calls |-> <<>>, similar |-> 0]

InitDispatch ==
    /\ out = <<>>
    /\ stdout = <<>>
    /\ log = <<>>
    /\ calls = <<>>
    /\ similar = 0
    /\ invocations = 0
    /\ last = NoRun

\* Before the first call of inspect
NoInspect ==
    [raw |-> PyNone, attribute |-> PyNone, json |-> PyNone,
     api |-> [ok |-> FALSE, result |-> <<>>], cwd |-> <<>>, status |-> "idle",
     apicalls |-> <<>>, written |-> 0, saved |-> <<>>]

\* Nothing saved, inspect not called.
InitInspectIdle ==
    /\ files = <<>>
    /\ inspected = NoInspect

\* No other handler called yet
NoHandler == [name |-> "none"]

InitHandlerIdle == handled = NoHandler

\* No Meson object used yet: nothing run, a fresh build folder
InitMesonIdle ==
    /\ commands = <<>>
    /\ infos = <<>>
    /\ folders = [private |-> FALSE, cross |-> FALSE, package |-> FALSE]
    /\ callerOptions = <<>>

\* No PkgConfigPkg object used yet
NoGet == [op |-> "none", name |-> "", result |-> PyNone, raised |-> "none"]

InitPkgIdle ==
    /\ keywords = <<>>
    /\ variables = <<>>
    /\ pkgCalls = <<>>
    /\ fetched = NoGet

InitToolsIdle == InitHandlerIdle /\ InitMesonIdle /\ InitPkgIdle

InitParseIdle ==
    /\ parser = "none"
    /\ actDefault = <<>>
    /\ parserDefaults = {}
    /\ ns = <<>>
    /\ consumed = <<>>
    /\ pstatus = "idle"

Run(argv, beh) ==
    /\ invocations < MaxInvocations
    /\ LET r == RunEffect(argv, beh)
       IN  /\ last' = r
           /\ out' = out \o r.out
           /\ stdout' = stdout \o r.stdout
           /\ log' = log \o r.log
           /\ calls' = calls \o r.calls
           /\ similar' = similar + r.similar
    /\ invocations' = invocations + 1
    /\ UNCHANGED <<parseVars, registryVars, inspectVars, toolVars>>

\* The Command object as the source defines it; no registry built yet.
InitRegistryIdle ==
    /\ candidates = Methods
    /\ registries = <<>>
    /\ word = <<>>
    /\ matches = <<>>

Init == InitDispatch /\ InitParseIdle /\ InitRegistryIdle /\ InitInspectIdle
            /\ InitToolsIdle

Next == \E argv \in ArgVectors, beh \in HandlerBehaviours : Run(argv, beh)

Spec == Init /\ [][Next]_vars

----------------------------------------------------------------------------
(* Argument parsing: the flags a handler declares with action=Extender or  *)
(* action=OnceArgument, and argparse walking over their occurrences.        *)

Flag(flag, action, nargs, dest, default) ==
    [flag |-> flag, action |-> action, nargs |-> nargs, dest |-> dest,
     default |-> default]

\* Flags of "conan create", in add_argument order: -j, then those of
\* _add_common_install_arguments and _add_profile_arguments.
CreateFlags == <<
    Flag("-j", "OnceArgument", "None", "json", PyNone),
    Flag("--build", "Extender", "?", "build", PyNone),
    Flag("-r", "OnceArgument", "None", "remote", PyNone),
    Flag("-pr", "Extender", "None", "profile_host", PyNone),
    Flag("-s", "Extender", "1", "settings_host", PyNone),
    Flag("-s:h", "Extender", "1", "settings_host", PyNone) >>

\* Flags of "conan remove".
RemoveFlags == <<
    Flag("-b", "Extender", "*", "builds", PyNone),
    Flag("-p", "Extender", "*", "packages", PyNone),
    Flag("-q", "OnceArgument", "None", "query", PyNone),
    Flag("-r", "OnceArgument", "None", "remote", PyNone) >>

\* A parser that declares one OnceArgument flag with a default other than
\* None: the case OnceArgument.__call__ tells apart with self.default.
DefaultedFlags == <<
    Flag("--once", "OnceArgument", "None", "once", PyStr("dflt")) >>

\* A parser whose Extender flags hand over each kind of value: -n is
\* declared with type=int (a number), -t with nargs=1 (a list), -u plainly
\* (a string).
TypedFlags == <<
    Flag("-n", "Extender", "int", "items", PyNone),
    Flag("-t", "Extender", "1", "items", PyNone),
    Flag("-u", "Extender", "None", "items", PyNone) >>

Parsers == {"create", "remove", "defaulted"}

FlagsOf(p) ==
    CASE p = "create" -> CreateFlags
      [] p = "remove" -> RemoveFlags
      [] p = "defaulted" -> DefaultedFlags
      [] p = "typed" -> TypedFlags
      [] OTHER -> <<>>

FlagNames(p) == {FlagsOf(p)[k].flag : k \in 1..Len(FlagsOf(p))}
Dests(p) == {FlagsOf(p)[k].dest : k \in 1..Len(FlagsOf(p))}
FlagSpec(p, f) ==
    FlagsOf(p)[CHOOSE k \in 1..Len(FlagsOf(p)) : FlagsOf(p)[k].flag = f]

\* Argument strings given on the command line
Vals == {"a", "b"}

\* The argument strings one occurrence of a flag can consume.
ArgStrings(nargs) ==
    CASE nargs = "None" -> {<<v>> : v \in Vals}
      [] nargs = "int" -> {<<"0">>, <<"5">>}
      [] nargs = "1" -> {<<v>> : v \in Vals}
      [] nargs = "?" -> {<<>>} \cup {<<v>> : v \in Vals}
      [] nargs = "*" -> {<<>>} \cup {<<v>> : v \in Vals}
                        \cup {<<v, w>> : v \in Vals, w \in Vals}

\* int(arg_string), for the numerals of ArgStrings
IntOf(arg) == IF arg = "0" THEN 0 ELSE 5

\* argparse's _get_values: the value handed to the action.  A flag without
\* nargs gets the string, nargs='?' the string or its const None when bare,
\* nargs=1 and nargs='*' the list of the strings.
GetValues(nargs, args) ==
    CASE nargs = "None" -> PyStr(args[1])
      [] nargs = "int" -> PyInt(IntOf(args[1]))
      [] nargs = "?" -> IF args = <<>> THEN PyNone ELSE PyStr(args[1])
      [] OTHER -> PyList(args)

\* Python truth value
Truthy(v) ==
    CASE v.t = "None" -> FALSE
      [] v.t = "int" -> v.i # 0
      [] v.t = "str" -> v.s # ""
      [] v.t = "list" -> v.l # <<>>
      [] v.t = "text" -> v.l # <<>>
      [] v.t = "set" -> v.e # {}

\* Variant: every destination starts as an empty list.
InitialNamespace_EmptyLists(p) == [d \in Dests(p) |-> PyList(<<>>)]

\* parse_known_args: every destination starts at the default of the first
\* action that declares it.
InitialNamespace(p) ==
    [d \in Dests(p) |->
        FlagsOf(p)[CHOOSE k \in 1..Len(FlagsOf(p)) :
                      /\ FlagsOf(p)[k].dest = d
                      /\ \A j \in 1..(k - 1) : FlagsOf(p)[j].dest # d].default]

\* Variant: the list is re-created on every occurrence.
ExtenderNeedsInit_Always(dest, default) == TRUE

\* Extender.__call__, line 36:
\*   not hasattr(dest, 'extend') or dest == self.default
ExtenderNeedsInit(dest, default) == dest.t # "list" \/ dest = default

\* Variant: new values are put in front of the collected ones.
ExtenderAdd_Front(lst, values) ==
    IF values.t = "str" THEN <<values.s>> \o lst
    ELSE IF Truthy(values) THEN values.l \o lst
    ELSE lst

\* Extender.__call__, lines 44-50: a string is appended, a non-empty list
\* extends, anything falsy adds nothing.
ExtenderAdd(lst, values) ==
    IF values.t = "str" THEN Append(lst, values.s)
    ELSE IF Truthy(values) THEN lst \o values.l
    ELSE lst

\* What dest.extend(values) raises at line 48, reached for a truthy value
\* that is not a string: nothing for a list, TypeError for a value that is
\* not iterable.  The except clause of line 49 catches ValueError only.
ExtendError(values) ==
    IF values.t # "str" /\ Truthy(values) /\ values.t # "list"
    THEN "TypeError" ELSE "none"

\* Extender.__call__ on the flag fs with the value values.
ExtenderCall(fs, values) ==
    LET dest == ns[fs.dest]
        init == ExtenderNeedsInit(dest, actDefault[fs.flag])
        lst == IF init THEN <<>> ELSE dest.l
    IN  /\ ns' = [ns EXCEPT ![fs.dest] = PyList(ExtenderAdd(lst, values))]
        \* parser.set_defaults(**{self.dest: None})
        /\ parserDefaults' = IF init THEN parserDefaults \cup {fs.dest}
                             ELSE parserDefaults
        /\ actDefault' = IF init
                         THEN [f \in DOMAIN actDefault |->
                                  IF FlagSpec(parser, f).dest = fs.dest
                                  THEN PyNone ELSE actDefault[f]]
                         ELSE actDefault
        \* an exception other than ArgumentError leaves parse_args
        /\ pstatus' = IF ExtendError(values) = "none" THEN pstatus ELSE "raised"

\* OnceArgument.__call__, line 58: the occurrence is refused
OnceRefuses(current, default) == current # PyNone /\ default = PyNone

\* OnceArgument.__call__: ArgumentError makes parse_args call parser.error,
\* which exits with code 2.
OnceCall(fs, values) ==
    IF OnceRefuses(ns[fs.dest], actDefault[fs.flag])
    THEN /\ pstatus' = "error"
         /\ UNCHANGED <<ns, parserDefaults, actDefault>>
    ELSE /\ ns' = [ns EXCEPT ![fs.dest] = values]
         /\ UNCHANGED <<pstatus, parserDefaults, actDefault>>

InitParse ==
    /\ parser \in Parsers
    /\ actDefault = [f \in FlagNames(parser) |-> FlagSpec(parser, f).default]
    /\ parserDefaults = {}
    /\ ns = InitialNamespace(parser)
    /\ consumed = <<>>
    /\ pstatus = "parsing"

\* argparse takes one occurrence of the flag f with the argument strings args.
TakeAction(f, args) ==
    /\ pstatus = "parsing"
    /\ Len(consumed) < MaxOccurrences
    /\ f \in FlagNames(parser)
    /\ LET fs == FlagSpec(parser, f)
       IN  /\ args \in ArgStrings(fs.nargs)
           /\ consumed' = Append(consumed, [flag |-> f, args |-> args])
           /\ IF fs.action = "Extender"
              THEN ExtenderCall(fs, GetValues(fs.nargs, args))
              ELSE OnceCall(fs, GetValues(fs.nargs, args))
    /\ UNCHANGED <<parser, dispatchVars, registryVars, inspectVars, toolVars>>

\* The command line is exhausted: parse_args returns the namespace.
FinishParse ==
    /\ pstatus = "parsing"
    /\ pstatus' = "done"
    /\ UNCHANGED <<parser, actDefault, parserDefaults, ns, consumed, dispatchVars,
                   registryVars, inspectVars, toolVars>>

AllFlags == UNION {FlagNames(p) : p \in Parsers}
AllArgStrings == UNION {ArgStrings(n) : n \in {"None", "1", "?", "*"}}

InitP == InitDispatch /\ InitParse /\ InitRegistryIdle /\ InitInspectIdle
            /\ InitToolsIdle

NextParse ==
    \/ \E f \in AllFlags, args \in AllArgStrings : TakeAction(f, args)
    \/ FinishParse

SpecParse == InitP /\ [][NextParse]_vars

\* The parse of the parser "typed"
InitTyped ==
    /\ InitDispatch
    /\ InitInspectIdle
    /\ InitToolsIdle
    /\ InitRegistryIdle
    /\ parser = "typed"
    /\ actDefault = [f \in FlagNames(parser) |-> FlagSpec(parser, f).default]
    /\ parserDefaults = {}
    /\ ns = InitialNamespace(parser)
    /\ consumed = <<>>
    /\ pstatus = "parsing"

NextTyped ==
    \/ \E f \in FlagNames("typed"), args \in ArgStrings("int") \cup ArgStrings("1") :
           TakeAction(f, args)
    \/ FinishParse

SpecTyped == InitTyped /\ [][NextTyped]_vars

\* The parsers the handlers of the source build
HandlerParsers == {"create", "remove"}

\* Variant: the namespace of the previous invocation is used again.
NewNamespace_Kept(p, old) ==
    IF DOMAIN old = Dests(p) THEN old ELSE InitialNamespace(p)

\* parse_args makes a new Namespace and fills it with the defaults.
NewNamespace(p, old) == InitialNamespace(p)

\* The handler has returned, or its parser has exited, and run is called
\* again on the same Command object with a command whose handler builds the
\* parser p: argparse.ArgumentParser(...), the add_argument calls, and
\* parse_args on the new argument vector.
Reinvoke(p) ==
    /\ pstatus \in {"done", "error"}
    /\ invocations + 1 < MaxInvocations
    /\ invocations' = invocations + 1
    /\ parser' = p
    /\ actDefault' = [f \in FlagNames(p) |-> FlagSpec(p, f).default]
    /\ parserDefaults' = {}
    /\ ns' = NewNamespace(p, ns)
    /\ consumed' = <<>>
    /\ pstatus' = "parsing"
    /\ UNCHANGED <<out, stdout, log, calls, similar, last, registryVars, inspectVars, toolVars>>

InitReparse ==
    /\ InitDispatch
    /\ InitInspectIdle
    /\ InitToolsIdle
    /\ InitRegistryIdle
    /\ parser \in HandlerParsers
    /\ actDefault = [f \in FlagNames(parser) |-> FlagSpec(parser, f).default]
    /\ parserDefaults = {}
    /\ ns = InitialNamespace(parser)
    /\ consumed = <<>>
    /\ pstatus = "parsing"

NextReparse ==
    \/ \E f \in AllFlags, args \in AllArgStrings : TakeAction(f, args)
    \/ FinishParse
    \/ \E p \in HandlerParsers : Reinvoke(p)

SpecReparse == InitReparse /\ [][NextReparse]_vars

----------------------------------------------------------------------------
(* difflib.get_close_matches, as Command._print_similar calls it *)

\* n=5 and cutoff=0.75 = CutoffNum / CutoffDen
MaxMatches == 5
CutoffNum == 3
CutoffDen == 4

\* The characters of the names, in code point order
Alphabet == <<"-", "_", "a", "b", "c", "d", "e", "f", "g", "h", "i", "j", "k",
              "l", "m", "n", "o", "p", "q", "r", "s", "t", "u", "v", "w", "x",
              "y", "z">>
Ord(c) == CHOOSE k \in 1..Len(Alphabet) : Alphabet[k] = c

\* Python's  x < y  on strings
RECURSIVE StrLess(_, _)
StrLess(x, y) ==
    IF y = <<>> THEN FALSE
    ELSE IF x = <<>> THEN TRUE
    ELSE IF Head(x) # Head(y) THEN Ord(Head(x)) < Ord(Head(y))
    ELSE StrLess(Tail(x), Tail(y))

\* The length of the common run of a from i and b from j, within the bounds
RECURSIVE MatchLen(_, _, _, _, _, _)
MatchLen(a, b, i, j, ahi, bhi) ==
    IF i > ahi \/ j > bhi THEN 0
    ELSE IF a[i] # b[j] THEN 0
    ELSE 1 + MatchLen(a, b, i + 1, j + 1, ahi, bhi)

\* SequenceMatcher.find_longest_match: the longest block common to
\* a[alo..ahi] and b[blo..bhi]; of the longest ones the one that starts
\* earliest in a, and of those the one that starts earliest in b.
FindLongestMatch(a, b, alo, ahi, blo, bhi) ==
    LET starts == (alo..ahi) \X (blo..bhi)
        size(p) == MatchLen(a, b, p[1], p[2], ahi, bhi)
        good == {p \in starts : size(p) > 0}
    IN  IF good = {} THEN <<alo, blo, 0>>
        ELSE LET best == CHOOSE p \in good :
                             \A q \in good :
                                 \/ size(p) > size(q)
                                 \/ /\ size(p) = size(q)
                                    /\ \/ p[1] < q[1]
                                       \/ p[1] = q[1] /\ p[2] <= q[2]
             IN  <<best[1], best[2], size(best)>>

\* SequenceMatcher.get_matching_blocks, summed: the number of matching
\* characters, the longest block first and then the pieces left and right.
RECURSIVE MatchingChars(_, _, _, _, _, _)
MatchingChars(a, b, alo, ahi, blo, bhi) ==
    IF alo > ahi \/ blo > bhi THEN 0
    ELSE LET m == FindLongestMatch(a, b, alo, ahi, blo, bhi)
         IN  IF m[3] = 0 THEN 0
             ELSE m[3]
                  + MatchingChars(a, b, alo, m[1] - 1, blo, m[2] - 1)
                  + MatchingChars(a, b, m[1] + m[3], ahi, m[2] + m[3], bhi)

\* A ratio 2.0 * matches / length as the fraction <<numerator, denominator>>
Fraction(count, length) == <<2 * count, length>>
AtLeastCutoff(r) == r[1] * CutoffDen >= CutoffNum * r[2]
FracLess(r, q) == r[1] * q[2] < q[1] * r[2]
FracEq(r, q) == r[1] * q[2] = q[1] * r[2]

Min(x, y) == IF x <= y THEN x ELSE y
CountOf(c, x) == Cardinality({k \in 1..Len(x) : x[k] = c})

\* SequenceMatcher(a=x, b=w).ratio()
Ratio(x, w) ==
    Fraction(MatchingChars(x, w, 1, Len(x), 1, Len(w)), Len(x) + Len(w))

\* SequenceMatcher.real_quick_ratio and quick_ratio, upper bounds of ratio
RealQuickRatio(x, w) == Fraction(Min(Len(x), Len(w)), Len(x) + Len(w))

RECURSIVE SumOver(_, _, _)
SumOver(cs, x, w) ==
    IF cs = {} THEN 0
    ELSE LET c == CHOOSE c \in cs : TRUE
         IN  Min(CountOf(c, x), CountOf(c, w)) + SumOver(cs \ {c}, x, w)

QuickRatio(x, w) ==
    Fraction(SumOver({x[k] : k \in 1..Len(x)}, x, w), Len(x) + Len(w))

\* Variant: every possibility passes the cutoff.
Qualifies_Any(x, w) == TRUE

\* The test of get_close_matches on one possibility x
Qualifies(x, w) ==
    /\ AtLeastCutoff(RealQuickRatio(x, w))
    /\ AtLeastCutoff(QuickRatio(x, w))
    /\ AtLeastCutoff(Ratio(x, w))

\* The list  result  of get_close_matches: the pair <<score, x>> of every
\* possibility that passes the cutoff, in the order of the possibilities
RECURSIVE ScoredPossibilities(_, _)
ScoredPossibilities(w, possibilities) ==
    IF possibilities = <<>> THEN <<>>
    ELSE LET x == Head(possibilities)
         IN  (IF Qualifies(x, w) THEN <<<<Ratio(x, w), x>>>> ELSE <<>>)
             \o ScoredPossibilities(w, Tail(possibilities))

\* Variant: among equal scores the smaller name is the greater pair.
PairGreater_NameAscending(p, q) ==
    \/ FracLess(q[1], p[1])
    \/ FracEq(p[1], q[1]) /\ StrLess(p[2], q[2])

\* Python's  p > q  on the pairs (score, x): the score first, then the name
PairGreater(p, q) ==
    \/ FracLess(q[1], p[1])
    \/ FracEq(p[1], q[1]) /\ StrLess(q[2], p[2])

\* heapq.nlargest(n, result): the n greatest pairs, the greatest first
NLargest(n, result) ==
    LET rank == [k \in 1..Len(result) |->
                    Cardinality({j \in 1..Len(result) :
                                    PairGreater(result[j], result[k])})]
    IN  [i \in 1..Min(n, Len(result)) |->
            result[CHOOSE k \in 1..Len(result) : rank[k] = i - 1]]

\* get_close_matches(word, possibilities, n, cutoff): the names of the n
\* best pairs, best first
GetCloseMatches(w, possibilities, n) ==
    LET best == NLargest(n, ScoredPossibilities(w, possibilities))
    IN  [k \in 1..Len(best) |-> best[k][2]]

\* The keys of a registry, in iteration order
Keys(reg) == [k \in 1..Len(reg) |-> reg[k].name]

\* What _print_similar writes for the matches: a heading, one line per
\* match (code is the position of the match) and an empty line.
SimilarOutput(ms) ==
    IF Len(ms) = 0 THEN <<>>
    ELSE <<Msg("info", IF Len(ms) > 1 THEN "The most similar commands are"
                       ELSE "The most similar command is", 0)>>
         \o [k \in 1..Len(ms) |-> Msg("info", "    %s", k)]
         \o <<Msg("info", "", 0)>>

----------------------------------------------------------------------------
(* The registry and the suggestion as operations on a Command object *)

MaxBuilds == 2
MaxSuggestions == 1

Method(name, doc) == [name |-> name, doc |-> doc]

\* Methods a Command class may define besides the family below, sorted by name
BasePool == <<
    Method(<<"_", "c", "o", "m", "m", "a", "n", "d", "s">>, <<" ", "R", "e", "t", "u", "r">>),
    Method(<<"b", "u", "i", "l", "d">>, DocText),
    Method(<<"c", "r", "e", "a", "t", "e">>, DocText),
    Method(ExportPkg, DocText),
    Method(<<"h", "e", "l", "p", "e", "r">>, <<>>),
    Method(<<"r", "e", "m", "o", "v", "e">>, DocText),
    Method(<<"r", "u", "n">>, DocHidden) >>

\* Six documented methods with names one character apart
Family == <<
    Method(<<"t", "e", "s", "t", "a">>, DocText),
    Method(<<"t", "e", "s", "t", "b">>, DocText),
    Method(<<"t", "e", "s", "t", "c">>, DocText),
    Method(<<"t", "e", "s", "t", "d">>, DocText),
    Method(<<"t", "e", "s", "t", "e">>, DocText),
    Method(<<"t", "e", "s", "t", "f">>, DocText) >>

\* The elements of seq at the positions in S, in order
RECURSIVE Pick(_, _, _)
Pick(seq, S, k) ==
    IF k > Len(seq) THEN <<>>
    ELSE (IF k \in S THEN <<seq[k]>> ELSE <<>>) \o Pick(seq, S, k + 1)

\* The method lists the registry is built from: the Command class of the
\* source, and classes made of pool methods.
CandidateLists ==
    {Methods}
    \cup {Pick(BasePool, S, 1) \o SubSeq(Family, 1, n) :
             S \in SUBSET (1..Len(BasePool)), n \in {0, 2, Len(Family)}}

Remoate == <<"r", "e", "m", "o", "a", "t", "e">>
Testa == <<"t", "e", "s", "t", "a">>
Words == {Biuld, Remoate, Testa, Nonexistent}

InitRegistry ==
    /\ InitDispatch
    /\ InitInspectIdle
    /\ InitToolsIdle
    /\ InitParseIdle
    /\ candidates \in CandidateLists
    /\ registries = <<>>
    /\ word = <<>>
    /\ matches = <<>>

\* One call of self._commands()
BuildRegistry ==
    /\ Len(registries) < MaxBuilds
    /\ registries' = Append(registries, CommandsFrom(candidates, <<>>))
    /\ UNCHANGED <<candidates, word, matches, dispatchVars, parseVars, inspectVars, toolVars>>

\* One call of self._print_similar(command)
PrintSimilar(command) ==
    /\ similar < MaxSuggestions
    /\ LET ms == GetCloseMatches(command, Keys(CommandsFrom(candidates, <<>>)),
                                 MaxMatches)
       IN  /\ matches' = ms
           /\ out' = out \o SimilarOutput(ms)
    /\ word' = command
    /\ similar' = similar + 1
    /\ UNCHANGED <<candidates, registries, stdout, log, calls, invocations, last,
                   parseVars, inspectVars, toolVars>>

NextRegistry ==
    \/ BuildRegistry
    \/ \E command \in Words : PrintSimilar(command)

SpecRegistry == InitRegistry /\ [][NextRegistry]_vars

\* A Command object that also has a bound method stored under the attribute
\* name 'export-pkg' (setattr), next to its export_pkg method.
CollidingPool ==
    SubSeq(BasePool, 1, 3) \o <<Method(ExportPkgPublic, DocText)>>
    \o SubSeq(BasePool, 4, Len(BasePool))

CollidingLists ==
    {Pick(CollidingPool, S \cup {4, 5}, 1) \o SubSeq(Family, 1, n) :
        S \in SUBSET (1..Len(CollidingPool)), n \in {0, 2, Len(Family)}}

InitCollision ==
    /\ InitDispatch
    /\ InitInspectIdle
    /\ InitToolsIdle
    /\ InitParseIdle
    /\ candidates \in CollidingLists
    /\ registries = <<>>
    /\ word = <<>>
    /\ matches = <<>>

SpecCollision == InitCollision /\ [][NextRegistry]_vars

----------------------------------------------------------------------------
(* Command.inspect: the handler after parse_args, with the arguments as the *)
(* namespace holds them, the outcome of the API call and the current        *)
(* directory as inputs.  A JSON text is the sequence of its members, each   *)
(* [key, json] with json a string or an array.                              *)

MaxInspects == 1

\* os.path.isabs
IsAbs(path) == path # <<>> /\ path[1] = "/"

\* os.path.join(a, b)
Join(a, b) ==
    IF IsAbs(b) THEN b
    ELSE IF a = <<>> \/ a[Len(a)] = "/" THEN a \o b
    ELSE a \o <<"/">> \o b

\* Lines 153-156: the file the JSON text goes to
JsonOutputFile(path, cwd) == IF ~IsAbs(path) THEN Join(cwd, path) ELSE path

\* sorted(list(obj)) in reverse
RECURSIVE SortedDescending(_)
SortedDescending(S) ==
    IF S = {} THEN <<>>
    ELSE LET m == CHOOSE x \in S : \A y \in S : x >= y
         IN  <<m>> \o SortedDescending(S \ {m})

\* sorted(list(obj))
RECURSIVE Sorted(_)
Sorted(S) ==
    IF S = {} THEN <<>>
    ELSE LET m == CHOOSE x \in S : \A y \in S : x <= y
         IN  <<m>> \o Sorted(S \ {m})

\* Variant: the elements of a set come out largest first.
DumpCustomTypes_Descending(obj) ==
    IF obj.t = "set" THEN [ok |-> TRUE, v |-> PyList(SortedDescending(obj.e))]
    ELSE [ok |-> FALSE, v |-> PyNone]

\* dump_custom_types, lines 147-150: a set becomes its sorted list, anything
\* else raises TypeError
DumpCustomTypes(obj) ==
    IF obj.t = "set" THEN [ok |-> TRUE, v |-> PyList(Sorted(obj.e))]
    ELSE [ok |-> FALSE, v |-> PyNone]

\* The values json encodes by itself
JsonNative(v) == v.t \in {"text", "list"}

JsonEncode(v) ==
    IF v.t = "text" THEN [j |-> "string", chars |-> v.l, items |-> <<>>]
    ELSE [j |-> "array", chars |-> <<>>, items |-> v.l]

\* json.dumps(result, default=dump_custom_types): default is called for the
\* values json does not encode by itself, and what it returns is encoded.
JsonDumps(result) ==
    [k \in 1..Len(result) |->
        [key |-> result[k].k,
         json |-> IF JsonNative(result[k].v) THEN JsonEncode(result[k].v)
                  ELSE JsonEncode(DumpCustomTypes(result[k].v).v)]]

\* The handler from line 125 on.  apicalls are the calls of
\* self._conan_api.inspect, written the number of values shown on the
\* output, saved the calls of save.
InspectEffect(raw, attribute, json, api, cwd) ==
    LET base == [raw |-> raw, attribute |-> attribute, json |-> json, api |-> api,
                 cwd |-> cwd, status |-> "rejected", apicalls |-> <<>>,
                 written |-> 0, saved |-> <<>>]
        attributes == IF Truthy(raw) THEN PyList(<<raw.l>>) ELSE attribute
        call == [attributes |-> attributes, quiet |-> Truthy(raw)]
    IN  IF Truthy(raw) /\ Truthy(attribute) THEN base
        ELSE IF Truthy(raw) /\ Truthy(json) THEN base
        ELSE IF ~api.ok
        THEN [base EXCEPT !.status = "api_failed", !.apicalls = <<call>>]
        ELSE [base EXCEPT
                 !.status = "done",
                 !.apicalls = <<call>>,
                 !.written = Len(api.result),
                 !.saved = IF Truthy(json)
                           THEN <<[path |-> JsonOutputFile(json.l, cwd),
                                   content |-> JsonDumps(api.result)]>>
                           ELSE <<>>]

\* Inputs: args.raw, args.attribute, args.json as parse_args leaves them
RawArgs == {PyNone, PyText(<<>>), PyText(<<"n">>)}
AttributeArgs == {PyNone, PyList(<<>>), PyList(<<"n">>)}
JsonArgs == {PyNone, PyText(<<>>), PyText(<<"o">>), PyText(<<"d", "/", "o">>),
             PyText(<<"/", "o">>)}
Cwds == {<<"/">>, <<"/", "w">>}

\* What self._conan_api.inspect returns: attribute values, sets among them
Results == {
    <<>>,
    <<[k |-> "name", v |-> PyText(<<"p">>)]>>,
    <<[k |-> "topics", v |-> PyList(<<3, 1, 2>>)]>>,
    <<[k |-> "name", v |-> PyText(<<"p">>)], [k |-> "topics", v |-> PySet({1, 2, 3})]>>,
    <<[k |-> "topics", v |-> PySet({})]>> }

ApiOutcomes ==
    {[ok |-> FALSE, result |-> <<>>]} \cup {[ok |-> TRUE, result |-> r] : r \in Results}

\* One call of Command.inspect
Inspect(raw, attribute, json, api, cwd) ==
    /\ invocations < MaxInspects
    /\ invocations' = invocations + 1
    /\ LET e == InspectEffect(raw, attribute, json, api, cwd)
       IN  /\ inspected' = e
           \* save(json_output_file, json_output)
           /\ files' = IF e.saved = <<>> THEN files
                       ELSE (e.saved[1].path :> e.saved[1].content) @@ files
    /\ UNCHANGED <<out, stdout, log, calls, similar, last, parseVars, registryVars,
                   toolVars>>

InitInspect ==
    /\ InitDispatch
    /\ InitInspectIdle
    /\ InitToolsIdle
    /\ InitParseIdle
    /\ InitRegistryIdle

NextInspect ==
    \E raw \in RawArgs, attribute \in AttributeArgs, json \in JsonArgs,
       api \in ApiOutcomes, cwd \in Cwds :
        Inspect(raw, attribute, json, api, cwd)

SpecInspect == InitInspect /\ [][NextInspect]_vars

----------------------------------------------------------------------------
(* Command._warn_python_version, over sys.version_info.major and .minor *)

MaxMajor == 6
MaxMinor == 15

\* Line 754: version.major == 2 or version.minor < 6
WarnRaises(major, minor) == major = 2 \/ minor < 6

\* One call of self._warn_python_version() under the given interpreter
WarnPythonVersion(major, minor) ==
    /\ handled' = [name |-> "_warn_python_version", major |-> major,
                   minor |-> minor,
                   exc |-> IF WarnRaises(major, minor)
                           THEN Exc("ConanException", PyNone, "Conan needs Python >= 3.6")
                           ELSE NoExc]
    /\ UNCHANGED <<dispatchVars, parseVars, registryVars, inspectVars, mesonVars,
                   pkgVars>>

NextVersion ==
    \E major \in 0..MaxMajor, minor \in 0..MaxMinor : WarnPythonVersion(major, minor)

SpecVersion == Init /\ [][NextVersion]_vars

----------------------------------------------------------------------------
(* The handlers upload, build and remove, called once through Command.run. *)
(* The process starts with its command line, the interpreter version and   *)
(* what the API call is going to do; handled holds them, then the outcome.  *)

MaxArgs == 3

\* Command line items: a positional that is a pattern or plain reference
\* ("ref") or a full package reference ("pref"), options with a value
\* ("-r", "-q", "-j"), flags, help, and --retry with a value that is not
\* an integer.
UploadItems == {"ref", "pref", "-r", "-q", "--force", "--skip-upload", "-j", "-h",
                "--retry"}
BuildItems == {"ref", "-r", "-j", "-h"}

ItemsOf(cmd) == IF cmd = "upload" THEN UploadItems ELSE BuildItems

Vectors(items) == UNION {[1..n -> items] : n \in 0..MaxArgs}

\* The namespace before the first argument; exit is None while parse_args
\* has not exited.
EmptyParse ==
    [exit |-> PyNone, pos |-> <<>>, remote |-> FALSE, query |-> FALSE,
     json |-> FALSE, force |-> FALSE, skip |-> FALSE]

\* argparse takes the arguments from left to right: -h exits with 0, a
\* second occurrence of a OnceArgument option and a --retry value that int
\* rejects exit with 2 on the spot.
RECURSIVE ScanArgs(_, _)
ScanArgs(argv, st) ==
    IF argv = <<>> \/ st.exit # PyNone THEN st
    ELSE LET a == Head(argv)
             once(set) == IF set THEN [st EXCEPT !.exit = PyInt(2)] ELSE st
         IN  ScanArgs(Tail(argv),
                 CASE a = "-h" -> [st EXCEPT !.exit = PyInt(0)]
                   [] a = "--retry" -> [st EXCEPT !.exit = PyInt(2)]
                   [] a = "-r" -> [once(st.remote) EXCEPT !.remote = TRUE]
                   [] a = "-q" -> [once(st.query) EXCEPT !.query = TRUE]
                   [] a = "-j" -> [once(st.json) EXCEPT !.json = TRUE]
                   [] a = "--force" -> [st EXCEPT !.force = TRUE]
                   [] a = "--skip-upload" -> [st EXCEPT !.skip = TRUE]
                   [] OTHER -> [st EXCEPT !.pos = Append(st.pos, a)])

\* Variant: -r is not required.
RequiredMissing_RemoteOptional(cmd, st) == st.pos = <<>>

\* The required arguments parse_args misses at the end of the command line:
\* the positional, and for upload -r/--remote (line 566, required=True)
RequiredMissing(cmd, st) == st.pos = <<>> \/ (cmd = "upload" /\ ~st.remote)

\* parser.parse_args: the exits of the scan, then the required arguments,
\* then the arguments left over; both are usage errors, exit code 2.
ParseArgs(cmd, argv) ==
    LET st == ScanArgs(argv, EmptyParse)
    IN  IF st.exit # PyNone THEN st
        ELSE IF RequiredMissing(cmd, st) \/ Len(st.pos) > 1
        THEN [st EXCEPT !.exit = PyInt(2)]
        ELSE st

\* What the API call does: returns (cls "none") or raises cls; info tells
\* whether the returned value, or exc.info, is a non-empty info.
ApiBehaviours ==
    {[cls |-> c, info |-> i] :
        c \in {"none", "ConanException", "ConanInvalidConfiguration"},
        i \in BOOLEAN}
    \cup {[cls |-> "RuntimeError", info |-> FALSE]}

Versions == {<<3, 6>>, <<3, 5>>, <<4, 0>>}

ApiRaise(api) == Exc(api.cls, PyNone, "failed")

\* Variant: the finally clause writes only when the call returned.
JsonWritten_OnSuccessOnly(json, api) == json /\ api.cls = "none" /\ api.info

\* Lines 431-436 and 625-630: info is the returned value, or exc.info when a
\* ConanException was caught, else None; finally: if args.json and info
JsonWritten(json, api) ==
    /\ json
    /\ (api.cls = "none" \/ IsInstance(api.cls, "ConanException"))
    /\ api.info

\* The body of upload or build after parse_args, as the sequence of its
\* events and the exception it ends with.
HandlerBody(cmd, st, api, version) ==
    LET conan(msg) == [exc |-> Exc("ConanException", PyNone, msg), events |-> <<>>]
    IN  IF cmd = "upload" /\ st.pos[1] = "pref" /\ st.query
        THEN conan("'--query' argument cannot be used together with full reference")
        ELSE IF cmd = "upload" /\ st.force /\ st.skip
        THEN conan("'--skip-upload' argument cannot be used together with '--force'")
        ELSE IF WarnRaises(version[1], version[2])
        THEN conan("Conan needs Python >= 3.6")
        ELSE [exc |-> IF api.cls = "none" THEN NoExc ELSE ApiRaise(api),
              events |-> <<"api">> \o (IF JsonWritten(st.json, api)
                                       THEN <<"json_output">> ELSE <<>>)]

\* run(<<cmd>> \o argv): parse_args, the body, and the except clauses of run
HandlerEffect(cmd, argv, api, version) ==
    LET st == ParseArgs(cmd, argv)
        body == IF st.exit # PyNone
                THEN [exc |-> Exc("SystemExit", st.exit, ""), events |-> <<>>]
                ELSE HandlerBody(cmd, st, api, version)
        e == IF body.exc = NoExc
             THEN Effect("returned", PyInt(SUCCESS), NoExc, <<>>, <<>>, <<>>)
             ELSE Handle(body.exc)
    IN  [name |-> cmd, argv |-> argv, api |-> api, version |-> version,
         status |-> e.status, ret |-> e.ret, exc |-> body.exc,
         events |-> body.events \o (IF body.exc = NoExc THEN <<>> ELSE <<"except">>)]

Pending(cmd, argv, api, version) ==
    [name |-> cmd, argv |-> argv, api |-> api, version |-> version,
     status |-> "pending", ret |-> PyNone, exc |-> NoExc, events |-> <<>>]

\* The namespace parse_args hands to remove: -p and -b are None, an empty
\* list or package IDs; the query and the positional are None or a string.
PackageArgs == {PyNone, PyList(<<>>), PyList(<<"id">>)}
QueryArgs == {PyNone, PyStr(""), PyStr("q")}
PatternArgs == {PyNone, PyStr(""), PyStr("pkg/1.0"), PyStr("pkg/1.0:id"), PyStr("pkg*")}

RemoveArgs ==
    [packages : PackageArgs, builds : PackageArgs, query : QueryArgs,
     system_reqs : BOOLEAN, pattern : PatternArgs]

\* PkgReference.loads(text) succeeds: text is a full package reference
IsPref(pattern) == pattern = PyStr("pkg/1.0:id")

\* check_valid_ref(text)
ValidRef(pattern) == pattern = PyStr("pkg/1.0")

\* Variant: only package IDs clash with the query.
QueryClash_IdsOnly(selection, query) == Truthy(selection) /\ Truthy(query)

\* Lines 517 and 520: args.packages is not None and args.query
QueryClash(selection, query) == selection # PyNone /\ Truthy(query)

\* The body of remove after parse_args: the exception it ends with and the
\* removal API calls it makes.
RemoveBody(args, api, version) ==
    LET conan(msg) == [exc |-> Exc("ConanException", PyNone, msg), events |-> <<>>]
        call(f) == [exc |-> IF api.cls = "none" THEN NoExc ELSE ApiRaise(api),
                    events |-> <<f>>]
    IN  IF WarnRaises(version[1], version[2])
        THEN conan("Conan needs Python >= 3.6")
        ELSE IF QueryClash(args.packages, args.query)
        THEN conan("'-q' and '-p' parameters can't be used at the same time")
        ELSE IF QueryClash(args.builds, args.query)
        THEN conan("'-q' and '-b' parameters can't be used at the same time")
        ELSE IF args.system_reqs
        THEN IF Truthy(args.packages)
             THEN conan("'-t' and '-p' parameters can't be used at the same time")
             ELSE IF ~Truthy(args.pattern)
             THEN conan("Please specify a valid pattern or reference to be cleaned")
             ELSE IF ValidRef(args.pattern) THEN call("remove_system_reqs")
             ELSE call("remove_system_reqs_by_pattern")
        ELSE IF ~Truthy(args.pattern)
        THEN conan("Please specify a pattern to be removed")
        ELSE IF IsPref(args.pattern) /\ Truthy(args.packages)
        THEN conan("Use package ID only as -p argument or reference, not both")
        ELSE call("remove")

\* run on remove, from the parsed namespace on
RemoveEffect(args, api, version) ==
    LET body == RemoveBody(args, api, version)
        e == IF body.exc = NoExc
             THEN Effect("returned", PyInt(SUCCESS), NoExc, <<>>, <<>>, <<>>)
             ELSE Handle(body.exc)
    IN  [name |-> "remove", args |-> args, api |-> api, version |-> version,
         status |-> e.status, ret |-> e.ret, exc |-> body.exc,
         events |-> body.events \o (IF body.exc = NoExc THEN <<>> ELSE <<"except">>)]

PendingRemove(args, api, version) ==
    [name |-> "remove", args |-> args, api |-> api, version |-> version,
     status |-> "pending", ret |-> PyNone, exc |-> NoExc, events |-> <<>>]

InitHandler ==
    /\ InitDispatch
    /\ InitParseIdle
    /\ InitRegistryIdle
    /\ InitInspectIdle
    /\ InitMesonIdle
    /\ InitPkgIdle
    /\ \/ \E cmd \in {"upload", "build"} :
             \E argv \in Vectors(ItemsOf(cmd)), api \in ApiBehaviours,
                version \in Versions :
                 handled = Pending(cmd, argv, api, version)
       \/ \E args \in RemoveArgs, api \in ApiBehaviours, version \in Versions :
             handled = PendingRemove(args, api, version)

\* The one call of run of the process, on upload or build
RunHandler ==
    /\ handled.status = "pending"
    /\ handled.name \in {"upload", "build"}
    /\ handled' = HandlerEffect(handled.name, handled.argv, handled.api,
                                handled.version)
    /\ UNCHANGED <<dispatchVars, parseVars, registryVars, inspectVars, mesonVars,
                   pkgVars>>

\* The one call of run of the process, on remove
RunRemove ==
    /\ handled.status = "pending"
    /\ handled.name = "remove"
    /\ handled' = RemoveEffect(handled.args, handled.api, handled.version)
    /\ UNCHANGED <<dispatchVars, parseVars, registryVars, inspectVars, mesonVars,
                   pkgVars>>

NextHandler == RunHandler \/ RunRemove

SpecHandler == InitHandler /\ [][NextHandler]_vars

----------------------------------------------------------------------------
(* conan.tools.meson.Meson *)

MaxRuns == 1
MaxCommands == 4

PyTrue == [t |-> "bool", i |-> 1, s |-> "", l |-> <<>>]
PyFalse == [t |-> "bool", i |-> 0, s |-> "", l |-> <<>>]

\* str(v), as "{}".format(v) renders it
Digits == <<"0", "1", "2", "3", "4", "5", "6", "7", "8", "9">>

Format(v) ==
    CASE v.t = "str" -> v.s
      [] v.t = "int" -> Digits[v.i + 1]
      [] v.t = "bool" -> IF v.i = 1 THEN "True" ELSE "False"
      [] v.t = "None" -> "None"

\* A command line is the sequence of its words: cmd += " {}".format(w)
\* appends the word w.

\* Variant: the positional arguments before the options.
RunCommand_ArgsFirst(cmd, args, options) ==
    LET RECURSIVE AddOptions(_, _)
        AddOptions(line, opts) ==
            IF opts = <<>> THEN line
            ELSE LET k == Head(opts)[1]
                     v == Head(opts)[2]
                 IN  AddOptions(IF v = PyTrue THEN line \o <<k>>
                                ELSE IF v # PyFalse THEN line \o <<k, Format(v)>>
                                ELSE line, Tail(opts))
        start == <<"meson">> \o (IF cmd # PyNone THEN <<Format(cmd)>> ELSE <<>>)
    IN  AddOptions(start \o args, options)

\* Meson.run, lines 14-21: the command line
RunCommand(cmd, args, options) ==
    LET RECURSIVE AddOptions(_, _)
        AddOptions(line, opts) ==
            IF opts = <<>> THEN line
            ELSE LET k == Head(opts)[1]
                     v == Head(opts)[2]
                 IN  AddOptions(IF v = PyTrue THEN line \o <<k>>
                                ELSE IF v # PyFalse THEN line \o <<k, Format(v)>>
                                ELSE line, Tail(opts))
        start == <<"meson">> \o (IF cmd # PyNone THEN <<Format(cmd)>> ELSE <<>>)
    IN  AddOptions(start, options) \o args

\* Meson.run, lines 22-24: the lines given to output.info
RunInfo(line, cmd_info_name) ==
    IF cmd_info_name # PyFalse
    THEN << <<"Meson">>
            \o (IF cmd_info_name = PyNone THEN <<>> ELSE <<Format(cmd_info_name)>>)
            \o <<"cmd:">> \o line >>
    ELSE <<>>

\* conanfile.run(line): the external meson setup creates meson-private in the
\* build folder.
ConanfileRun(fs, line) ==
    IF Len(line) >= 2 /\ line[2] = "setup" THEN [fs EXCEPT !.private = TRUE] ELSE fs

\* Meson.run with options None or a list
RunCall(cmd, args, options, cmd_info_name) ==
    LET opts == IF options = PyNone THEN <<>> ELSE options.l
        line == RunCommand(cmd, args, opts)
    IN  [line |-> line, info |-> RunInfo(line, cmd_info_name)]

BuildFolder == "\"build\""
SourceFolder == "\"source\""
CrossFile == "\"generators/conan_meson_cross.ini\""
NativeFile == "\"generators/conan_meson_native.ini\""
Prefix == "prefix=\"package\""

\* Variant: --reconfigure is appended to the options.
RunSetupCall_ReconfigureLast(fs, options, cmd_info_name, reconfigure) ==
    LET opts0 == IF options = PyNone THEN <<>> ELSE options.l
        name == IF cmd_info_name = PyNone THEN PyStr("setup") ELSE cmd_info_name
        reconf == IF reconfigure = PyNone THEN PyTrue ELSE reconfigure
        opts1 == IF reconf = PyTrue /\ fs.private
                 THEN Append(opts0, <<"--reconfigure", PyTrue>>)
                 ELSE opts0
        run == RunCall(PyStr("setup"), <<BuildFolder, SourceFolder>>,
                       PyList(opts1), name)
    IN  [options |-> opts1, line |-> run.line, info |-> run.info]

\* Meson.run_setup: the list object it was given as it leaves it, and the
\* call of run it makes.
RunSetupCall(fs, options, cmd_info_name, reconfigure) ==
    LET opts0 == IF options = PyNone THEN <<>> ELSE options.l
        name == IF cmd_info_name = PyNone THEN PyStr("setup") ELSE cmd_info_name
        reconf == IF reconfigure = PyNone THEN PyTrue ELSE reconfigure
        opts1 == IF reconf = PyTrue /\ fs.private
                 THEN << <<"--reconfigure", PyTrue>> >> \o opts0
                 ELSE opts0
        run == RunCall(PyStr("setup"), <<BuildFolder, SourceFolder>>,
                       PyList(opts1), name)
    IN  [options |-> opts1, line |-> run.line, info |-> run.info]

\* Meson.configure: the list object it was given as it leaves it, and the
\* call of run it makes through run_setup.
ConfigureCall(fs, options) ==
    LET opts0 == IF options = PyNone THEN <<>> ELSE options.l
        opts1 == IF fs.cross
                 THEN Append(opts0, <<"--cross-file", PyStr(CrossFile)>>)
                 ELSE Append(opts0, <<"--native-file", PyStr(NativeFile)>>)
        opts2 == IF fs.package THEN Append(opts1, <<"-D", PyStr(Prefix)>>) ELSE opts1
    IN  RunSetupCall(fs, PyList(opts2), PyStr("configure"), PyNone)

\* Inputs of a direct call of run
SubCommands == {PyNone, PyStr("setup")}
OptionPairs == {<<"--wipe", PyTrue>>, <<"--strip", PyFalse>>,
                <<"--backend", PyStr("ninja")>>, <<"--unity-size", PyInt(1)>>}
OptionLists == {<<>>} \cup {<<o>> : o \in OptionPairs}
                      \cup {<<o, p>> : o \in OptionPairs, p \in OptionPairs}
PositionalLists == {<<>>, <<"src">>, <<"src", "out">>, <<"out", "src">>}
InfoNames == {PyNone, PyFalse, PyStr("custom")}

\* The list object a recipe keeps and passes as options=
CallerLists == {<<>>, << <<"--wipe", PyTrue>> >>}

\* A direct call meson.run(cmd, *args, options=options, cmd_info_name=name)
MesonRun(cmd, args, options, cmd_info_name) ==
    /\ Len(commands) < MaxRuns
    /\ LET run == RunCall(cmd, args, PyList(options), cmd_info_name)
       IN  /\ commands' = Append(commands, run.line)
           /\ infos' = infos \o run.info
           /\ folders' = ConanfileRun(folders, run.line)
    /\ UNCHANGED <<callerOptions, handled, pkgVars, dispatchVars, parseVars,
                   registryVars, inspectVars>>

InitMesonRun == Init

NextMesonRun ==
    \E cmd \in SubCommands, args \in PositionalLists, options \in OptionLists,
       cmd_info_name \in InfoNames :
        MesonRun(cmd, args, options, cmd_info_name)

SpecMesonRun == InitMesonRun /\ [][NextMesonRun]_vars

\* meson.configure(), or meson.configure(options=opts) with the recipe's list
MesonConfigure(supplied) ==
    /\ Len(commands) < MaxCommands
    /\ LET call == ConfigureCall(folders, IF supplied THEN PyList(callerOptions)
                                          ELSE PyNone)
       IN  /\ commands' = Append(commands, call.line)
           /\ infos' = infos \o call.info
           /\ folders' = ConanfileRun(folders, call.line)
           /\ callerOptions' = IF supplied THEN call.options ELSE callerOptions
    /\ UNCHANGED <<handled, pkgVars, dispatchVars, parseVars, registryVars,
                   inspectVars>>

\* meson.run_setup(reconfigure=...), with or without the recipe's list
MesonRunSetup(supplied, reconfigure) ==
    /\ Len(commands) < MaxCommands
    /\ LET call == RunSetupCall(folders, IF supplied THEN PyList(callerOptions)
                                         ELSE PyNone, PyNone, reconfigure)
       IN  /\ commands' = Append(commands, call.line)
           /\ infos' = infos \o call.info
           /\ folders' = ConanfileRun(folders, call.line)
           /\ callerOptions' = IF supplied THEN call.options ELSE callerOptions
    /\ UNCHANGED <<handled, pkgVars, dispatchVars, parseVars, registryVars,
                   inspectVars>>

\* meson.build(target), njobs being what build_jobs(conanfile) returns
MesonBuild(njobs, target) ==
    /\ Len(commands) < MaxCommands
    /\ LET line == <<"meson", "compile", "-C", BuildFolder>>
                   \o (IF Truthy(njobs) THEN <<"-j" \o Format(njobs)>> ELSE <<>>)
                   \o (IF Truthy(target) THEN <<Format(target)>> ELSE <<>>)
       IN  /\ commands' = Append(commands, line)
           /\ infos' = Append(infos, <<"Meson", "build", "cmd:">> \o line)
           /\ folders' = ConanfileRun(folders, line)
    /\ UNCHANGED <<callerOptions, handled, pkgVars, dispatchVars, parseVars,
                   registryVars, inspectVars>>

\* meson.install()
MesonInstall ==
    /\ Len(commands) + 1 < MaxCommands
    /\ LET call == ConfigureCall(folders, PyNone)
           line == <<"meson", "install", "-C", BuildFolder>>
       IN  /\ commands' = commands \o <<call.line, line>>
           /\ infos' = infos \o call.info
           /\ folders' = ConanfileRun(ConanfileRun(folders, call.line), line)
    /\ UNCHANGED <<callerOptions, handled, pkgVars, dispatchVars, parseVars,
                   registryVars, inspectVars>>

\* A recipe over a fresh build folder: the cross file exists or not, the
\* package folder is set or not.
InitMeson ==
    /\ InitDispatch
    /\ InitParseIdle
    /\ InitRegistryIdle
    /\ InitInspectIdle
    /\ InitHandlerIdle
    /\ InitPkgIdle
    /\ commands = <<>>
    /\ infos = <<>>
    /\ folders \in [private : {FALSE}, cross : BOOLEAN, package : BOOLEAN]
    /\ callerOptions \in CallerLists

NextMeson ==
    \/ \E supplied \in BOOLEAN : MesonConfigure(supplied)
    \/ \E supplied \in BOOLEAN, reconfigure \in {PyNone, PyFalse} :
           MesonRunSetup(supplied, reconfigure)
    \/ \E njobs \in {PyNone, PyInt(4)}, target \in {PyNone, PyStr("all")} :
           MesonBuild(njobs, target)
    \/ MesonInstall

SpecMeson == InitMeson /\ [][NextMeson]_vars

----------------------------------------------------------------------------
(* conan.tools.gnu.pkgconfig_pkg.PkgConfigPkg *)

MaxPkgCalls == 2

_valid_keywords ==
    {"name", "version", "description", "url", "requires", "requires.private",
     "conflicts", "provides", "cflags", "cflags.private", "libs", "libs.private"}

\* The names and values the calls are made with
PkgNames == {"name", "Name", "prefix"}
PkgValues == {PyNone, PyStr("a"), PyStr("b")}

\* name.lower()
Lower(name) == IF name = "Name" THEN "name" ELSE name

\* A dict over the names: PyNone stands for a missing key (a stored value is
\* never None).
EmptyDict == [k \in PkgNames |-> PyNone]

\* d.get(name, None)
DictGet(d, name) == d[name]

\* The result of a call: what it returns, or the exception it raises
PkgReturn(op, name, result) == [op |-> op, name |-> name, result |-> result, raised |-> "none"]
PkgRaise(op, name, cls) == [op |-> op, name |-> name, result |-> PyNone, raised |-> cls]

\* set_keyword(name, value)
SetKeyword(name, value) ==
    /\ Len(pkgCalls) < MaxPkgCalls
    /\ pkgCalls' = Append(pkgCalls, [op |-> "set_keyword", name |-> name, value |-> value])
    /\ IF Lower(name) \notin _valid_keywords
       THEN /\ fetched' = PkgRaise("set_keyword", name, "KeyError")
            /\ UNCHANGED keywords
       ELSE /\ fetched' = PkgReturn("set_keyword", name, DictGet(keywords, Lower(name)))
            /\ keywords' = [keywords EXCEPT ![Lower(name)] = value]
    /\ UNCHANGED <<variables, handled, mesonVars, dispatchVars, parseVars,
                   registryVars, inspectVars>>

\* get_keyword(name)
GetKeyword(name) ==
    /\ fetched' = IF Lower(name) \notin _valid_keywords
                  THEN PkgRaise("get_keyword", name, "KeyError")
                  ELSE PkgReturn("get_keyword", name, DictGet(keywords, Lower(name)))
    /\ UNCHANGED <<keywords, variables, pkgCalls, handled, mesonVars, dispatchVars,
                   parseVars, registryVars, inspectVars>>

\* set_variable(name, value)
SetVariable(name, value) ==
    /\ Len(pkgCalls) < MaxPkgCalls
    /\ pkgCalls' = Append(pkgCalls, [op |-> "set_variable", name |-> name, value |-> value])
    /\ fetched' = PkgReturn("set_variable", name, DictGet(variables, name))
    /\ variables' = [variables EXCEPT ![name] = value]
    /\ UNCHANGED <<keywords, handled, mesonVars, dispatchVars, parseVars,
                   registryVars, inspectVars>>

\* get_variable(name): return self.keywords.get(name, None)
GetVariable(name) ==
    /\ fetched' = PkgReturn("get_variable", name, DictGet(keywords, name))
    /\ UNCHANGED <<keywords, variables, pkgCalls, handled, mesonVars, dispatchVars,
                   parseVars, registryVars, inspectVars>>

\* PkgConfigPkg(keywords={}, variables={})
InitPkg ==
    /\ InitDispatch
    /\ InitParseIdle
    /\ InitRegistryIdle
    /\ InitInspectIdle
    /\ InitHandlerIdle
    /\ InitMesonIdle
    /\ keywords = EmptyDict
    /\ variables = EmptyDict
    /\ pkgCalls = <<>>
    /\ fetched = NoGet

NextPkg ==
    \/ \E name \in PkgNames, value \in PkgValues : SetKeyword(name, value)
    \/ \E name \in PkgNames : GetKeyword(name)
    \/ \E name \in PkgNames, value \in PkgValues : SetVariable(name, value)
    \/ \E name \in PkgNames : GetVariable(name)

SpecPkg == InitPkg /\ [][NextPkg]_vars

----------------------------------------------------------------------------
(* Properties of the dispatcher *)

Ran == invocations > 0
Returned == Ran /\ last.status = "returned"
Registered == Ran /\ last.argv # <<>> /\ last.argv[1] \in CommandNames
Unknown == Ran /\ last.argv # <<>> /\ last.argv[1] \notin CommandNames

\* The handler of the last run was called and raised an exception of class cls.
HandlerRaised(cls) == Registered /\ last.beh.cls = cls

ErrorCount(msgs) == Cardinality({k \in 1..Len(msgs) : msgs[k].level = "error"})

\* C1: every call of run, whatever the argument vector and whatever the
\* handler raises, ends by returning an exit code; no exception leaves run.
C1_RunAlwaysReturns == Ran => last.status = "returned"

\* C2: the failure mapping is first-match-wins: ConanInvalidConfiguration
\* gives ERROR_INVALID_CONFIGURATION, ConanInvalidSystemRequirements gives
\* ERROR_INVALID_SYSTEM_REQUIREMENTS, any other ConanException and any
\* unclassified exception give ERROR_GENERAL.
C2_FirstMatchMapping ==
    /\ HandlerRaised("ConanInvalidConfiguration") =>
           last.status = "returned" /\ last.ret = PyInt(ERROR_INVALID_CONFIGURATION)
    /\ HandlerRaised("ConanInvalidSystemRequirements") =>
           last.status = "returned"
           /\ last.ret = PyInt(ERROR_INVALID_SYSTEM_REQUIREMENTS)
    /\ HandlerRaised("ConanException") =>
           last.status = "returned" /\ last.ret = PyInt(ERROR_GENERAL)
    /\ HandlerRaised("RuntimeError") =>
           last.status = "returned" /\ last.ret = PyInt(ERROR_GENERAL)

C2_Witness ==
    /\ HandlerRaised("ConanInvalidSystemRequirements")
    /\ last.ret = PyInt(ERROR_INVALID_SYSTEM_REQUIREMENTS)

\* C3: a handler that raises KeyboardInterrupt makes run return SUCCESS.
C3_InterruptIsSuccess ==
    HandlerRaised("KeyboardInterrupt") =>
        last.status = "returned" /\ last.ret = PyInt(SUCCESS)

C3_Witness == HandlerRaised("KeyboardInterrupt") /\ last.ret = PyInt(SUCCESS)

\* The handler of the last run requested exit with a nonzero integer code.
ExitNonzero ==
    /\ HandlerRaised("SystemExit")
    /\ last.beh.code.t = "int"
    /\ last.beh.code.i # 0

EchoesCode ==
    \E k \in 1..Len(last.out) :
        last.out[k] = Msg("error", "Exiting with code: %d", last.beh.code.i)

C5_UnknownCommandSuggests ==
    Unknown =>
        /\ last.calls = <<>>
        /\ last.similar = 1
        /\ last.status = "returned" /\ last.ret = PyInt(ERROR_GENERAL)

\* C6: run never writes to the raw stream: all its text goes to the sink.
C6_NoRawStreamWrite == stdout = <<>>

\* C7: a run that returns a non-Success code emitted exactly one error
\* message on the sink, and a run that returns Success emitted none.
C7_OneErrorPerFailure ==
    Returned =>
        /\ last.ret # PyInt(SUCCESS) => ErrorCount(last.out) = 1
        /\ last.ret = PyInt(SUCCESS) => ErrorCount(last.out) = 0

C7_Witness ==
    /\ Returned
    /\ HandlerRaised("ConanException")
    /\ last.ret = PyInt(ERROR_GENERAL)
    /\ ErrorCount(last.out) = 1

----------------------------------------------------------------------------
(* Properties of argument parsing *)

Parsing == pstatus \in {"parsing", "done", "error"}

ExtenderDests ==
    {FlagsOf(parser)[k].dest : k \in {j \in 1..Len(FlagsOf(parser)) :
                                         FlagsOf(parser)[j].action = "Extender"}}
OnceFlags ==
    {FlagsOf(parser)[k].flag : k \in {j \in 1..Len(FlagsOf(parser)) :
                                         FlagsOf(parser)[j].action = "OnceArgument"}}

\* The occurrences, in encounter order, of the flags that write to d
OccsTo(d) == SelectSeq(consumed, LAMBDA o : FlagSpec(parser, o.flag).dest = d)
\* The occurrences of the flag f
OccsOf(f) == SelectSeq(consumed, LAMBDA o : o.flag = f)

\* The argument strings of a sequence of occurrences, in order
RECURSIVE Flatten(_)
Flatten(occs) == IF occs = <<>> THEN <<>> ELSE Head(occs).args \o Flatten(Tail(occs))

\* C8 as stated: the list of an Extender destination has one element per
\* occurrence of the flags writing to it, the supplied values in encounter
\* order.
C8_OneElementPerOccurrence ==
    Parsing =>
        \A d \in ExtenderDests :
            OccsTo(d) # <<>> =>
                /\ ns[d].t = "list"
                /\ Len(ns[d].l) = Len(OccsTo(d))
                /\ \A k \in 1..Len(OccsTo(d)) :
                       /\ Len(OccsTo(d)[k].args) = 1
                       /\ ns[d].l[k] = OccsTo(d)[k].args[1]

\* C8 amended: the list of an Extender destination is the concatenation, in
\* encounter order, of the values each occurrence carries; its length is the
\* number of occurrences when every occurrence carries exactly one value.
C8_ValuesInEncounterOrder ==
    Parsing =>
        \A d \in ExtenderDests :
            OccsTo(d) # <<>> =>
                /\ ns[d] = PyList(Flatten(OccsTo(d)))
                /\ (\A k \in 1..Len(OccsTo(d)) : Len(OccsTo(d)[k].args) = 1)
                       => Len(ns[d].l) = Len(OccsTo(d))

C8_Witness ==
    /\ parser = "create"
    /\ Len(consumed) >= 2
    /\ consumed[1] = [flag |-> "-s", args |-> <<"a">>]
    /\ consumed[2] = [flag |-> "-s", args |-> <<"b">>]
    /\ ns["settings_host"] = PyList(<<"a", "b">>)

\* C9: one occurrence of a OnceArgument flag succeeds and leaves its value in
\* the destination; a second occurrence is refused with a usage error and
\* the first value stays, whatever default the flag declares.
C9_OnceRejectsSecond ==
    Parsing =>
        \A f \in OnceFlags :
            LET occs == OccsOf(f)
                d == FlagSpec(parser, f).dest
                lastIsF == consumed # <<>> /\ consumed[Len(consumed)].flag = f
            IN  /\ Len(occs) = 1 =>
                    /\ ns[d] = PyStr(occs[1].args[1])
                    /\ lastIsF => pstatus # "error"
                /\ Len(occs) >= 2 =>
                    /\ ns[d] = PyStr(occs[1].args[1])
                    /\ pstatus = "error"

\* The destinations written by more than one flag
SharedDests ==
    {d \in ExtenderDests :
        Cardinality({k \in 1..Len(FlagsOf(parser)) : FlagsOf(parser)[k].dest = d}) > 1}

\* C10: on a destination shared by several Extender flags, an occurrence of
\* any of them keeps the values already collected, in place, and adds its
\* own after them.
C10_SharedDestKeepsValues ==
    [][\A d \in SharedDests :
           ns[d].t = "list" =>
               /\ ns'[d].t = "list"
               /\ Len(ns'[d].l) >= Len(ns[d].l)
               /\ SubSeq(ns'[d].l, 1, Len(ns[d].l)) = ns[d].l]_vars

C10_Witness ==
    /\ parser = "create"
    /\ Len(consumed) = 3
    /\ consumed[1] = [flag |-> "-s", args |-> <<"a">>]
    /\ consumed[2] = [flag |-> "-s:h", args |-> <<"b">>]
    /\ consumed[3] = [flag |-> "-s", args |-> <<"a">>]
    /\ ns["settings_host"] = PyList(<<"a", "b", "a">>)

\* The number of argument strings of a sequence of occurrences
ValueCount(occs) == Len(Flatten(occs))

\* C11: Extender takes every incoming value: a string as one element, a
\* list as its elements, and a value that cannot extend the list (a number)
\* as one element too, without raising and without dropping it.
C11_EveryValueKindIsKept ==
    (parser = "typed" /\ consumed # <<>>) =>
        /\ pstatus # "raised"
        /\ ns["items"].t = "list"
        /\ Len(ns["items"].l) = ValueCount(consumed)

\* C18: a run with a registered command token calls exactly one handler, the
\* method bound to the token, exactly once, with the argument vector without
\* its first element, whatever the handler raises; over all runs there is at
\* most one handler call per run.
C18_OneHandlerCallPerRun ==
    /\ Registered =>
           /\ Len(last.calls) = 1
           /\ \E k \in 1..Len(Methods) :
                  /\ Methods[k].name = last.argv[1]
                  /\ last.calls[1].name = Methods[k].name
           /\ last.argv = <<last.argv[1]>> \o last.calls[1].args
    /\ Len(calls) <= invocations

\* A registered command was run with two further arguments and its handler
\* raised.
C18_Witness ==
    /\ HandlerRaised("RuntimeError")
    /\ Len(last.argv) = 3
    /\ Len(last.calls) = 1
    /\ invocations = 2 /\ Len(calls) = 2

\* C19: in every invocation, the first and the following ones, the parsed
\* arguments and the outcome of the parse are determined by the occurrences
\* of that invocation alone: an Extender destination holds the values of its
\* own occurrences (None without any), a OnceArgument destination the value
\* of its own first occurrence (None without any), and the parse ends in a
\* usage error exactly when a OnceArgument flag occurs twice in it.
C19_OwnArgumentsOnly ==
    Parsing =>
        /\ \A d \in ExtenderDests :
               ns[d] = IF OccsTo(d) = <<>> THEN PyNone
                       ELSE PyList(Flatten(OccsTo(d)))
        /\ \A f \in OnceFlags :
               ns[FlagSpec(parser, f).dest] =
                   IF OccsOf(f) = <<>> THEN PyNone
                   ELSE PyStr(OccsOf(f)[1].args[1])
        /\ pstatus = "error" <=> \E f \in OnceFlags : Len(OccsOf(f)) >= 2

\* A second invocation on the same object has parsed one Extender flag and
\* one OnceArgument flag.
C19_Witness ==
    /\ invocations = 1
    /\ parser = "create"
    /\ pstatus = "done"
    /\ consumed = <<[flag |-> "-s", args |-> <<"a">>],
                    [flag |-> "-r", args |-> <<"a">>]>>
    /\ ns["settings_host"] = PyList(<<"a">>)
    /\ ns["remote"] = PyStr("a")

\* C23: after any number of occurrences, an Extender destination is None if
\* and only if no flag writing to it has occurred; when flags writing to it
\* occurred and none carried a value, it is the empty list.
C23_NoneIffNoOccurrence ==
    Parsing =>
        \A d \in ExtenderDests :
            /\ ns[d] = PyNone <=> OccsTo(d) = <<>>
            /\ (OccsTo(d) # <<>> /\ Flatten(OccsTo(d)) = <<>>) => ns[d] = PyList(<<>>)

\* remove was parsed with a bare -p and no -b: packages is the empty list
\* and builds is None.
C23_Witness ==
    /\ parser = "remove"
    /\ pstatus = "done"
    /\ consumed = <<[flag |-> "-p", args |-> <<>>]>>
    /\ ns["packages"] = PyList(<<>>)
    /\ ns["builds"] = PyNone

\* C26: _warn_python_version raises ConanException if and only if the
\* version (major, minor) is lower than (3, 6).
C26_RaisesIffBelow36 ==
    handled.name = "_warn_python_version" =>
        (handled.exc.cls = "ConanException" <=>
            (handled.major < 3 \/ (handled.major = 3 /\ handled.minor < 6)))

----------------------------------------------------------------------------
(* Properties of the registry *)

Built == registries # <<>>
Candidates == {candidates[k] : k \in 1..Len(candidates)}
KeySet(reg) == {reg[k].name : k \in 1..Len(reg)}

\* reg[public] is the bound method named method
Bound(reg, public, method) ==
    \E k \in 1..Len(reg) : reg[k] = [name |-> public, method |-> method]

\* reg holds the bound method under some key
Contains(reg, method) == \E k \in 1..Len(reg) : reg[k].method = method

Underscored(m) == m.name # <<>> /\ m.name[1] = "_"
Documented(m) == Len(m.doc) > 0
Hidden(m) == Len(m.doc) >= 6 /\ \A i \in 1..6 : m.doc[i] = DocHidden[i]

\* C12: a built registry contains a candidate method if and only if its name
\* does not start with '_' and its docstring is non-empty and does not start
\* with 'HIDDEN'; run, documented 'HIDDEN: ...', is never a key, neither of a
\* built registry nor of the one run dispatches on.
C12_MembershipRule ==
    /\ \A b \in 1..Len(registries) :
           /\ \A m \in Candidates :
                  Contains(registries[b], m.name) <=>
                      (~Underscored(m) /\ Documented(m) /\ ~Hidden(m))
           /\ \A k \in 1..Len(registries[b]) :
                  \E m \in Candidates : m.name = registries[b][k].method
           /\ RunName \notin KeySet(registries[b])
    /\ RunName \notin CommandNames

\* A registry was built from methods of every kind: underscored, without
\* docstring, hidden (run) and eligible.
C12_Witness ==
    /\ Built
    /\ \E m \in Candidates : Underscored(m) /\ Documented(m)
    /\ \E m \in Candidates : ~Underscored(m) /\ ~Documented(m)
    /\ \E m \in Candidates : m.name = RunName /\ Hidden(m)
    /\ \E m \in Candidates : Contains(registries[1], m.name)

\* C15: an eligible method named export_pkg is registered under 'export-pkg'
\* and not under 'export_pkg'; every other eligible method is registered
\* under its own name.
C15_RewriteRule ==
    \A b \in 1..Len(registries) :
        /\ \A m \in Candidates :
               (~Underscored(m) /\ Documented(m) /\ ~Hidden(m)) =>
                   IF m.name = ExportPkg
                   THEN Bound(registries[b], ExportPkgPublic, ExportPkg)
                   ELSE Bound(registries[b], m.name, m.name)
        /\ ExportPkg \notin KeySet(registries[b])

\* A registry was built from export_pkg and another eligible method.
C15_Witness ==
    /\ Built
    /\ Bound(registries[1], ExportPkgPublic, ExportPkg)
    /\ Bound(registries[1], Build, Build)

\* Two candidates that both qualify for the registry and map to one public name
HasCollision ==
    \E m1, m2 \in Candidates :
        /\ m1.name # m2.name
        /\ ~Underscored(m1) /\ Documented(m1) /\ ~Hidden(m1)
        /\ ~Underscored(m2) /\ Documented(m2) /\ ~Hidden(m2)
        /\ (IF m1.name = ExportPkg THEN ExportPkgPublic ELSE m1.name)
           = (IF m2.name = ExportPkg THEN ExportPkgPublic ELSE m2.name)

\* C14: when two candidates map to the same public name, construction fails:
\* no registry is ever produced from such a Command object.
C14_CollisionFailsFast == HasCollision => ~Built

----------------------------------------------------------------------------
(* Properties of the suggestion *)

Suggested == similar > 0
Registry == CommandsFrom(candidates, <<>>)
Similarity(x) == Ratio(x, word)

\* similarity >= 0.75
Close(x, w) == 4 * Ratio(x, w)[1] >= 3 * Ratio(x, w)[2]

\* Position of a name among the keys of the registry
KeyIndex(x) == CHOOSE k \in 1..Len(Registry) : Registry[k].name = x

SuggestedNames == {matches[k] : k \in 1..Len(matches)}

\* C16: a call of _print_similar returns only registered public names with
\* similarity at least 0.75 to the token, at most 5 of them, each once, and
\* leaves a qualifying name out only when 5 names at least as similar are
\* returned; 'biuld' with 'build' registered returns 'build'; with no
\* qualifying name the result is empty and nothing is printed, and otherwise
\* a heading, one line per name and an empty line are printed.
C16_OnlyTheBestQualifying ==
    [][similar' = similar + 1 =>
        LET names == KeySet(Registry)
            ms == matches'
            got == {ms[k] : k \in 1..Len(ms)}
        IN  /\ got \subseteq names
            /\ \A x \in got : Close(x, word')
            /\ Len(ms) <= 5
            /\ Cardinality(got) = Len(ms)
            /\ \A x \in names \ got :
                   Close(x, word') =>
                       /\ Len(ms) = 5
                       /\ \A y \in got :
                              ~FracLess(Ratio(y, word'), Ratio(x, word'))
            /\ (word' = Biuld /\ Build \in names) => Build \in got
            /\ (\A x \in names : ~Close(x, word')) => ms = <<>> /\ out' = out
            /\ ms # <<>> => Len(out') = Len(out) + Len(ms) + 2
    ]_vars

\* Six registered names qualify and five are suggested.
C16_Witness ==
    /\ Suggested
    /\ Len(matches) = 5
    /\ \E x \in KeySet(Registry) \ SuggestedNames : Close(x, word)
    /\ Len(out) = 7

\* C17: the suggested names are in descending order of similarity, and names
\* of equal similarity are in the iteration order of the registry.
C17_TiesInRegistryOrder ==
    Suggested =>
        \A i, j \in 1..Len(matches) :
            i < j =>
                /\ ~FracLess(Similarity(matches[i]), Similarity(matches[j]))
                /\ FracEq(Similarity(matches[i]), Similarity(matches[j])) =>
                       KeyIndex(matches[i]) < KeyIndex(matches[j])

\* C17, amended: the suggested names are in descending order of similarity,
\* and names of equal similarity are in descending order of the names.
C17_TiesInDescendingNameOrder ==
    Suggested =>
        \A i, j \in 1..Len(matches) :
            i < j =>
                /\ ~FracLess(Similarity(matches[i]), Similarity(matches[j]))
                /\ FracEq(Similarity(matches[i]), Similarity(matches[j])) =>
                       StrLess(matches[j], matches[i])

\* A suggestion with a strictly better first name followed by equal ones.
C17_Witness ==
    /\ Suggested
    /\ Len(matches) >= 3
    /\ FracLess(Similarity(matches[2]), Similarity(matches[1]))
    /\ FracEq(Similarity(matches[2]), Similarity(matches[3]))

----------------------------------------------------------------------------
(* Properties of inspect *)

\* The elements of a sequence
Range(seq) == {seq[k] : k \in 1..Len(seq)}

\* C20: a call of inspect with a non-empty --json PATH, --raw not given a
\* value and a successful API call writes exactly one file, PATH itself when
\* it starts with '/' and the current directory joined to PATH otherwise,
\* holding one member per key of the result, a set as the ascending list of
\* its elements and any other value as it is; a call whose API call fails,
\* or that gives --raw a value together with -a or --json, writes no file.
C20_JsonFileWritten ==
    [][invocations' = invocations + 1 =>
        LET c == inspected'
            given == c.json.t = "text" /\ c.json.l # <<>>
            rawGiven == c.raw.t = "text" /\ c.raw.l # <<>>
            path == IF c.json.l[1] = "/" THEN c.json.l
                    ELSE IF c.cwd[Len(c.cwd)] = "/" THEN c.cwd \o c.json.l
                    ELSE c.cwd \o <<"/">> \o c.json.l
            result == c.api.result
        IN  /\ (given /\ ~rawGiven /\ c.api.ok) =>
                /\ DOMAIN files' = DOMAIN files \cup {path}
                /\ \A q \in DOMAIN files : q # path => files'[q] = files[q]
                /\ Len(files'[path]) = Len(result)
                /\ \A k \in 1..Len(result) :
                       LET m == files'[path][k]
                           v == result[k].v
                       IN  /\ m.key = result[k].k
                           /\ v.t = "set" =>
                                  /\ m.json.j = "array"
                                  /\ Range(m.json.items) = v.e
                                  /\ Len(m.json.items) = Cardinality(v.e)
                                  /\ \A a, b \in 1..Len(m.json.items) :
                                         a < b => m.json.items[a] < m.json.items[b]
                           /\ v.t = "list" =>
                                  m.json.j = "array" /\ m.json.items = v.l
                           /\ v.t = "text" =>
                                  m.json.j = "string" /\ m.json.chars = v.l
            /\ (~c.api.ok \/ (rawGiven /\ (c.attribute # PyNone \/ c.json # PyNone))) =>
                   files' = files
    ]_vars

\* A result with a set of three elements was written to a relative path
\* under the current directory /w.
C20_Witness ==
    /\ inspected.status = "done"
    /\ inspected.json = PyText(<<"d", "/", "o">>)
    /\ inspected.cwd = <<"/", "w">>
    /\ <<"/", "w", "/", "d", "/", "o">> \in DOMAIN files
    /\ Len(files[<<"/", "w", "/", "d", "/", "o">>]) = 2
    /\ files[<<"/", "w", "/", "d", "/", "o">>][2].json.items = <<1, 2, 3>>

----------------------------------------------------------------------------
(* Properties of the handlers *)

Handled(cmd) == handled.name = cmd /\ handled.status # "pending"
Given(item) == \E k \in 1..Len(handled.argv) : handled.argv[k] = item
ApiCalled == \E k \in 1..Len(handled.events) : handled.events[k] = "api"
JsonOutput == \E k \in 1..Len(handled.events) : handled.events[k] = "json_output"

\* The argument at position k is one parse_args rejects on the spot
RejectedAt(k) ==
    \/ handled.argv[k] = "--retry"
    \/ /\ handled.argv[k] \in {"-r", "-q", "-j"}
       /\ \E j \in 1..(k - 1) : handled.argv[j] = handled.argv[k]

\* -h is reached before any rejected argument
HelpShown ==
    \E k \in 1..Len(handled.argv) :
        handled.argv[k] = "-h" /\ \A j \in 1..(k - 1) : ~RejectedAt(j)

\* C21 as stated: without -r/--remote the upload API is never called and run
\* returns a non-Success exit code.
C21_NoRemoteFails ==
    (Handled("upload") /\ ~Given("-r")) =>
        /\ ~ApiCalled
        /\ handled.status = "returned"
        /\ handled.ret # PyInt(SUCCESS)

\* C21 amended: without the remote option the upload API is never called and
\* run returns the usage-error code 2, except that it returns Success when
\* -h is reached before any rejected argument.
C21_NoRemoteFailsUnlessHelp ==
    (Handled("upload") /\ ~Given("-r")) =>
        /\ ~ApiCalled
        /\ handled.status = "returned"
        /\ handled.ret = IF HelpShown THEN PyInt(SUCCESS) ELSE PyInt(2)

\* upload was run with a reference and options but no remote.
C21_Witness ==
    /\ Handled("upload")
    /\ handled.argv = <<"ref", "--force", "-j">>
    /\ handled.ret = PyInt(2)
    /\ handled.events = <<"except">>

\* C25: in build and upload with --json, when the API call raises a
\* ConanException (or a subclass) carrying non-empty info, json_output is
\* called after the API call and before the except clause of run, the same
\* exception reaches run and the exit code is its error code; without --json
\* or without info, json_output is never called.
C25_JsonWrittenOnFailure ==
    (Handled("upload") \/ Handled("build")) =>
        /\ (ApiCalled /\ Given("-j") /\ handled.api.info
            /\ handled.api.cls \in {"ConanException", "ConanInvalidConfiguration"}) =>
               /\ handled.events = <<"api", "json_output", "except">>
               /\ handled.exc = [cls |-> handled.api.cls, code |-> PyNone,
                                 msg |-> "failed"]
               /\ handled.status = "returned"
               /\ handled.ret = IF handled.api.cls = "ConanException"
                                THEN PyInt(ERROR_GENERAL)
                                ELSE PyInt(ERROR_INVALID_CONFIGURATION)
        /\ (~Given("-j") \/ ~handled.api.info) => ~JsonOutput

\* upload with --json failed with a ConanInvalidConfiguration carrying info.
C25_Witness ==
    /\ Handled("upload")
    /\ handled.argv = <<"ref", "-r", "-j">>
    /\ handled.api = [cls |-> "ConanInvalidConfiguration", info |-> TRUE]
    /\ handled.events = <<"api", "json_output", "except">>
    /\ handled.ret = PyInt(ERROR_INVALID_CONFIGURATION)

RemovalCalls ==
    {k \in 1..Len(handled.events) :
        handled.events[k] \in {"remove", "remove_system_reqs",
                               "remove_system_reqs_by_pattern"}}

RaisedConan == handled.exc.cls = "ConanException" /\ RemovalCalls = {}

\* C24 as stated: remove raises ConanException without a removal call when
\* --query comes with -p or -b, -t comes with package IDs, no pattern is
\* given, or a full package reference comes with -p package IDs; otherwise
\* it makes exactly one removal call.
C24_RejectsListedCasesOnly ==
    Handled("remove") =>
        LET a == handled.args
            ids == a.packages.t = "list" /\ a.packages.l # <<>>
            listed == \/ a.query # PyNone /\ a.packages # PyNone
                      \/ a.query # PyNone /\ a.builds # PyNone
                      \/ a.system_reqs /\ ids
                      \/ a.pattern = PyNone
                      \/ a.pattern = PyStr("pkg/1.0:id") /\ ids
        IN  IF listed THEN RaisedConan ELSE Cardinality(RemovalCalls) = 1

\* C24 amended: remove raises ConanException without a removal call when the
\* interpreter check raises (major 2 or minor below 6), a non-empty query
\* comes with -p or -b, -t comes with package IDs, the pattern is missing or
\* empty, or a full package reference comes with -p package IDs; otherwise
\* it makes exactly one removal call.
C24_RejectsListedCasesAndVersion ==
    Handled("remove") =>
        LET a == handled.args
            ids == a.packages.t = "list" /\ a.packages.l # <<>>
            query == a.query.t = "str" /\ a.query.s # ""
            listed == \/ handled.version[1] = 2 \/ handled.version[2] < 6
                      \/ query /\ a.packages # PyNone
                      \/ query /\ a.builds # PyNone
                      \/ a.system_reqs /\ ids
                      \/ a.pattern = PyNone \/ a.pattern = PyStr("")
                      \/ a.pattern = PyStr("pkg/1.0:id") /\ ids
        IN  IF listed THEN RaisedConan ELSE Cardinality(RemovalCalls) = 1

\* remove was given a query and a bare -p and raised before any removal.
C24_Witness ==
    /\ Handled("remove")
    /\ handled.version = <<3, 6>>
    /\ handled.args.query = PyStr("q")
    /\ handled.args.packages = PyList(<<>>)
    /\ handled.args.pattern = PyStr("pkg/1.0")
    /\ handled.events = <<"except">>
    /\ handled.ret = PyInt(ERROR_GENERAL)

----------------------------------------------------------------------------
(* Properties of Meson *)

RECURSIVE Rendered(_)
Rendered(options) ==
    IF options = <<>> THEN <<>>
    ELSE LET key == Head(options)[1]
             value == Head(options)[2]
         IN  (CASE value = PyTrue -> <<key>>
                [] value = PyFalse -> <<>>
                [] OTHER -> <<key, Format(value)>>) \o Rendered(Tail(options))

\* C27: a call of Meson.run runs exactly one command, made of "meson", the
\* sub-command, the options in the given order (True: the key alone, False:
\* nothing, any other value: key and value) and then the positional
\* arguments in the given order; the command logged, unless cmd_info_name is
\* False, is that very command.
C27_CommandConstruction ==
    [][\A cmd \in SubCommands, args \in PositionalLists, options \in OptionLists,
          cmd_info_name \in InfoNames :
           MesonRun(cmd, args, options, cmd_info_name) =>
               LET sub == IF cmd = PyNone THEN <<>> ELSE <<cmd.s>>
                   expected == <<"meson">> \o sub \o Rendered(options) \o args
               IN  /\ commands' = commands \o <<expected>>
                   /\ IF cmd_info_name = PyFalse THEN infos' = infos
                      ELSE /\ Len(infos') = Len(infos) + 1
                           /\ LET logged == infos'[Len(infos')]
                                  n == Len(logged)
                              IN  /\ n > Len(expected)
                                  /\ SubSeq(logged, n - Len(expected) + 1, n) = expected
                                  /\ logged[n - Len(expected)] = "cmd:"]_vars

\* run was called with a flag, an option with a value and two positional
\* arguments, and logged the command under a custom name.
C27_Witness ==
    /\ commands = << <<"meson", "setup", "--wipe", "--backend", "ninja", "src", "out">> >>
    /\ infos = << <<"Meson", "custom", "cmd:", "meson", "setup", "--wipe",
                    "--backend", "ninja", "src", "out">> >>

IsSetup(line) == Len(line) >= 2 /\ line[1] = "meson" /\ line[2] = "setup"

\* C22: configure issues one meson setup, build one meson compile, and
\* install a meson setup followed by meson install; a setup issued by
\* configure or install carries --reconfigure as its first option exactly
\* when the build folder already contains meson-private, which is the case
\* exactly when a setup was run before.
C22_SetupBeforeInstall ==
    [][/\ (MesonInstall \/ \E supplied \in BOOLEAN : MesonConfigure(supplied)) =>
              LET new == commands'[Len(commands) + 1]
              IN  /\ IsSetup(new)
                  /\ new[3] = "--reconfigure" <=> folders.private
                  /\ folders.private <=> \E k \in 1..Len(commands) : IsSetup(commands[k])
       /\ MesonInstall =>
              /\ Len(commands') = Len(commands) + 2
              /\ commands'[Len(commands')][2] = "install"
       /\ (\E supplied \in BOOLEAN : MesonConfigure(supplied)) =>
              Len(commands') = Len(commands) + 1
       /\ (\E njobs \in {PyNone, PyInt(4)}, target \in {PyNone, PyStr("all")} :
               MesonBuild(njobs, target)) =>
              /\ Len(commands') = Len(commands) + 1
              /\ commands'[Len(commands')][2] = "compile"]_vars

\* The recipe of the install test has run: configure and build, then install.
C22_Witness ==
    /\ Len(commands) = 4
    /\ IsSetup(commands[1]) /\ commands[1][3] # "--reconfigure"
    /\ commands[2] = <<"meson", "compile", "-C", BuildFolder>>
    /\ IsSetup(commands[3]) /\ commands[3][3] = "--reconfigure"
    /\ commands[4] = <<"meson", "install", "-C", BuildFolder>>
    /\ Len(infos) = 3

\* C28: every command issued by configure carries exactly one of
\* --cross-file and --native-file, --cross-file when the cross file exists
\* and --native-file otherwise, and carries -D prefix=<package_folder>
\* exactly when the package folder is set.
C28_OneMachineFile ==
    [][(MesonInstall \/ \E supplied \in BOOLEAN : MesonConfigure(supplied)) =>
           LET new == commands'[Len(commands) + 1]
           IN  /\ CountOf("--cross-file", new) = (IF folders.cross THEN 1 ELSE 0)
               /\ CountOf("--native-file", new) = (IF folders.cross THEN 0 ELSE 1)
               /\ CountOf(Prefix, new) > 0 <=> folders.package]_vars

\* C29: configure and run_setup leave the list object of the caller as it
\* was.
C29_CallerListUnchanged == [][callerOptions' = callerOptions]_vars

----------------------------------------------------------------------------
(* Properties of PkgConfigPkg *)

\* The value of the last call of op on a name equal to name under same
LastSet(op, name, same(_, _)) ==
    LET hits == {k \in 1..Len(pkgCalls) :
                    pkgCalls[k].op = op /\ same(pkgCalls[k].name, name)}
    IN  IF hits = {} THEN PyNone
        ELSE pkgCalls[CHOOSE k \in hits : \A j \in hits : j <= k].value

SameName(a, b) == a = b
SameKeyword(a, b) == Lower(a) = Lower(b)

\* C30: get_variable(name) returns the value of the last set_variable on
\* that name (None when there is none or it set None), whatever the
\* keywords are, and get_keyword(name) on a valid keyword returns the value
\* of the last set_keyword on that keyword, whatever the variables are.
C30_IndependentStores ==
    /\ fetched.op = "get_variable" =>
           /\ fetched.raised = "none"
           /\ fetched.result = LastSet("set_variable", fetched.name, SameName)
    /\ fetched.op = "get_keyword" /\ Lower(fetched.name) \in _valid_keywords =>
           /\ fetched.raised = "none"
           /\ fetched.result = LastSet("set_keyword", fetched.name, SameKeyword)

====
